---- MODULE Spec2Model ----
(***************************************************************************)
(* Model of the hybrid retail-analytics agent (agent/graph_hybrid.py):     *)
(* the LangGraph workflow route -> retrieve -> plan -> generate_sql ->     *)
(* execute_sql -> validate -> repair -> synthesize, the template SQL tier,  *)
(* the answer parser and HybridAgent.run with its fatal branch.            *)
(*                                                                         *)
(* Encodings.                                                              *)
(*  - A question is a record: its text, the set kw of the code's lexical   *)
(*    keywords that are substrings of the lower-cased text, and the first  *)
(*    "20dd" year token of the text ("" when there is none).               *)
(*  - The constraints string is the sequence of its " | "-separated        *)
(*    parts; the empty string is the empty sequence.                       *)
(*  - A result cell is [t, v]: t = "num" with v in thousandths, or         *)
(*    t = "txt" (text that float() rejects).                               *)
(*  - final_answer is [kind, val, recs]: kind "None", "int" (val in units),*)
(*    "float" (val in hundredths), "dict" or "list" (recs).                *)
(*  - confidence is in tenths (0.8 is 8).                                  *)
(*  - A query text is [src, id, start, end, year]: src "template" with the *)
(*    template number and its parameters, "llm" with the number of a       *)
(*    generated text, "placeholder" for 'SELECT 1', "" for ''.             *)
(***************************************************************************)
EXTENDS Integers, Sequences, FiniteSets, TLC

VARIABLES pc, state, result, exc, agent, runs, exec_log, failures, llm_calls, ex, batch,
          world, conc, clean, hist

vars == <<pc, state, result, exc, agent, runs, exec_log, failures, llm_calls, ex, batch,
          world, conc, clean, hist>>

(* ---------------------------------------------------------------- bounds *)
MaxDocs == 1
MaxRows == 1
MaxCols == 2
NumLLMSql == 2
MaxKw == 3
MaxFrontDocs == 2
MaxOcc == 2
MaxBatch == 2
ParseRows == 4

(* ------------------------------------------------------ program constants *)
MAX_REPAIRS == 2
HIGH_CONFIDENCE == 8
LOW_CONFIDENCE == 2
TOP_ROWS == 3
MAX_RETRIES == 1

Stages ==
  {"route", "retrieve", "plan", "generate_sql", "execute_sql", "validate",
   "repair", "synthesize"}

Routes == {"rag", "sql", "hybrid"}

FormatHints ==
  {"int", "float", "{category:str, quantity:int}",
   "list[{product:str, revenue:float}]", "{customer:str, margin:float}", "str"}

(* ------------------------------------------------------------- questions *)
Questions ==
  { [text |-> "Top 3 products by total revenue all-time",
     kw |-> {"top 3", "product", "revenue", "total revenue", "all-time"},
     year |-> ""],
    [text |-> "Which customer had highest gross margin in 2017?",
     kw |-> {"customer", "margin", "2017"},
     year |-> "2017"],
    [text |-> "What is the AOV during Winter Classics 2017?",
     kw |-> {"what is", "aov", "during", "winter", "2017"},
     year |-> "2017"],
    [text |-> "During Summer Beverages 2017, which category had the highest total quantity sold?",
     kw |-> {"during", "summer", "beverage", "2017", "category", "quantity"},
     year |-> "2017"],
    [text |-> "According to the product policy, what is the return window (days) for unopened Beverages?",
     kw |-> {"according to", "product", "policy", "what is", "return window", "beverage"},
     year |-> ""],
    [text |-> "How many orders were placed?",
     kw |-> {"how many"},
     year |-> ""] }

NoQuestion == [text |-> "", kw |-> {}, year |-> ""]

Has(q, w) == w \in q.kw

(* the words RouterModule.forward looks for in the lower-cased question    *)
RouterWords ==
  {"policy", "return window", "return days", "according to",
   "top 3", "top products", "all-time", "total revenue",
   "during", "summer", "winter", "campaign", "2017", "2016", "2018",
   "how many", "what is"}

(* the words generate_sql_node and TemplateSQLGenerator.generate look for  *)
TemplateWords ==
  {"summer", "winter", "2017", "category", "quantity", "aov",
   "average order value", "top 3", "product", "revenue", "beverage",
   "customer", "margin"}

(* year tokens a question may carry: the router's three and one that the   *)
(* router does not list but extract_year's pattern 20\d{2} accepts         *)
YearWords == {"2016", "2017", "2018", "2019"}

Vocabulary == RouterWords \cup TemplateWords \cup YearWords

(* a text that contains w also contains the words that are substrings of w *)
Implied(w) ==
  IF w = "total revenue" THEN {"revenue"}
  ELSE IF w = "top products" THEN {"product"}
  ELSE {}

Closure(K) == K \cup UNION {Implied(w) : w \in K}

RECURSIVE KwSets(_)
KwSets(n) ==
  IF n = 0 THEN {{}}
  ELSE LET S == KwSets(n - 1)
       IN S \cup {K \cup {w} : K \in S, w \in Vocabulary}

(* every question that carries at most MaxKw words of the vocabulary; the  *)
(* first year token of the text is any of the years it carries             *)
VocabQuestions ==
  UNION { { [text |-> "", kw |-> Closure(K), year |-> y] :
              y \in (IF K \cap YearWords = {} THEN {""} ELSE K \cap YearWords) } :
          K \in KwSets(MaxKw) }

(* --------------------------------------------------------- evidence chunks *)
(* ranges: the "date to date" phrases of the content in text order, each    *)
(* flagged when it carries the "Dates:" label; cats: the known category    *)
(* names occurring in the content; unopened: the number of days after      *)
(* "Beverages unopened:" (-1 when the phrase is absent).                   *)
Chunks ==
  << [id |-> "marketing_calendar::chunk1",
      ranges |-> << [labeled |-> TRUE, start |-> "2017-06-01", end |-> "2017-06-30"] >>,
      cats |-> <<"Beverages", "Condiments">>,
      unopened |-> -1],
     [id |-> "marketing_calendar::chunk2",
      ranges |-> << [labeled |-> TRUE, start |-> "2017-12-01", end |-> "2017-12-31"] >>,
      cats |-> <<"Confections", "Dairy Products">>,
      unopened |-> -1],
     [id |-> "product_policy::chunk1",
      ranges |-> << >>,
      cats |-> <<"Beverages">>,
      unopened |-> 14] >>

ChunkIdx == 1..Len(Chunks)

(* retrieve(query, top_k): an ordered list of distinct chunks *)
DocLists ==
  { d \in UNION { [1..n -> ChunkIdx] : n \in 0..MaxDocs } :
      \A i, j \in DOMAIN d : i # j => d[i] # d[j] }

FrontDocLists ==
  { d \in UNION { [1..n -> ChunkIdx] : n \in 0..MaxFrontDocs } :
      \A i, j \in DOMAIN d : i # j => d[i] # d[j] }

ChunksOf(d) == [i \in DOMAIN d |-> Chunks[d[i]]]

(* ------------------------------------------ RouterModule.forward (router) *)
(* llm is the fallback classifier's output after strip().lower(), or       *)
(* "<raise>" when the call raises.                                          *)
LLMRouteOutputs == {"rag", "sql", "hybrid", "unsure", "<raise>"}

(* variant: the fallback classifier's output is returned unvalidated      *)
forward_unvalidated(q, llm) ==
  IF \E w \in {"policy", "return window", "return days", "according to"} : Has(q, w)
    THEN "rag"
  ELSE IF (\E w \in {"top 3", "top products", "all-time", "total revenue"} : Has(q, w))
          /\ ~Has(q, "during")
    THEN "sql"
  ELSE IF (\E w \in {"during", "summer", "winter", "campaign"} : Has(q, w))
          \/ (\E y \in {"2017", "2016", "2018"} : Has(q, y))
    THEN "hybrid"
  ELSE llm

(* variant: the temporal rule is tried before the aggregate rule           *)
forward_temporal_first(q, llm) ==
  IF \E w \in {"policy", "return window", "return days", "according to"} : Has(q, w)
    THEN "rag"
  ELSE IF (\E w \in {"during", "summer", "winter", "campaign"} : Has(q, w))
          \/ (\E y \in {"2017", "2016", "2018"} : Has(q, y))
    THEN "hybrid"
  ELSE IF (\E w \in {"top 3", "top products", "all-time", "total revenue"} : Has(q, w))
          /\ ~Has(q, "during")
    THEN "sql"
  ELSE IF llm \in {"rag", "sql", "hybrid"}
    THEN llm
  ELSE IF Has(q, "how many") \/ Has(q, "what is")
    THEN "sql"
  ELSE "hybrid"

(* variant: the final default ignores the interrogative phrases            *)
forward_default_hybrid(q, llm) ==
  IF \E w \in {"policy", "return window", "return days", "according to"} : Has(q, w)
    THEN "rag"
  ELSE IF (\E w \in {"top 3", "top products", "all-time", "total revenue"} : Has(q, w))
          /\ ~Has(q, "during")
    THEN "sql"
  ELSE IF (\E w \in {"during", "summer", "winter", "campaign"} : Has(q, w))
          \/ (\E y \in {"2017", "2016", "2018"} : Has(q, y))
    THEN "hybrid"
  ELSE IF llm \in {"rag", "sql", "hybrid"}
    THEN llm
  ELSE "hybrid"

forward(q, llm) ==
  IF \E w \in {"policy", "return window", "return days", "according to"} : Has(q, w)
    THEN "rag"
  ELSE IF (\E w \in {"top 3", "top products", "all-time", "total revenue"} : Has(q, w))
          /\ ~Has(q, "during")
    THEN "sql"
  ELSE IF (\E w \in {"during", "summer", "winter", "campaign"} : Has(q, w))
          \/ (\E y \in {"2017", "2016", "2018"} : Has(q, y))
    THEN "hybrid"
  ELSE IF llm \in {"rag", "sql", "hybrid"}
    THEN llm
  ELSE IF Has(q, "how many") \/ Has(q, "what is")
    THEN "sql"
  ELSE "hybrid"

(* TRUE when forward reaches the call of the fallback classifier *)
ConsultsLLM(q) ==
  /\ ~(\E w \in {"policy", "return window", "return days", "according to"} : Has(q, w))
  /\ ~((\E w \in {"top 3", "top products", "all-time", "total revenue"} : Has(q, w))
       /\ ~Has(q, "during"))
  /\ ~((\E w \in {"during", "summer", "winter", "campaign"} : Has(q, w))
       \/ (\E y \in {"2017", "2016", "2018"} : Has(q, y)))

(* ------------------------------------------------------ constraint tokens *)
Tok(k, v) == [kind |-> k, value |-> v]

EmptyTok == Tok("", "")

IsDateTok(c) == c.kind \in {"START_DATE", "END_DATE"}

KnownCategories == <<"Beverages", "Condiments", "Confections", "Dairy Products">>

RECURSIVE RangeTokens(_)
RangeTokens(rs) ==
  IF rs = << >> THEN << >>
  ELSE <<Tok("START_DATE", Head(rs).start), Tok("END_DATE", Head(rs).end)>>
       \o RangeTokens(Tail(rs))

IsLabeled(r) == r.labeled

RECURSIVE CatTokens(_, _)
CatTokens(cats, known) ==
  IF known = << >> THEN << >>
  ELSE (IF Head(known) \in cats THEN <<Tok("CATEGORY", Head(known))>> ELSE << >>)
       \o CatTokens(cats, Tail(known))

SeqToSet(sq) == {sq[i] : i \in DOMAIN sq}

(* the tokens plan_node appends for one document: the labeled pattern's     *)
(* matches, then the bare pattern's matches (which include the labeled     *)
(* phrases again), then the categories                                     *)
DocTokens(doc) ==
  RangeTokens(SelectSeq(doc.ranges, IsLabeled))
  \o RangeTokens(doc.ranges)
  \o CatTokens(SeqToSet(doc.cats), KnownCategories)

RECURSIVE ExtractConstraints(_)
ExtractConstraints(docs) ==
  IF docs = << >> THEN << >>
  ELSE DocTokens(Head(docs)) \o ExtractConstraints(Tail(docs))

(* str.split(' | ') and ' | '.join on the parts representation *)
Split(constraints) == IF constraints = << >> THEN <<EmptyTok>> ELSE constraints

Join(parts) == IF parts = <<EmptyTok>> THEN << >> ELSE parts

(* ------------------------------------------------- TemplateSQLGenerator *)
NoSql == [src |-> "", id |-> 0, start |-> "", end |-> "", year |-> ""]

PlaceholderSql == [src |-> "placeholder", id |-> 0, start |-> "", end |-> "", year |-> ""]

TemplateSql(n, s, e, y) == [src |-> "template", id |-> n, start |-> s, end |-> e, year |-> y]

LLMSql(n) == [src |-> "llm", id |-> n, start |-> "", end |-> "", year |-> ""]

IsStartTok(c) == c.kind = "START_DATE"

IsEndTok(c) == c.kind = "END_DATE"

(* (start, end) of the first START_DATE and the first END_DATE, or          *)
(* ("", "") when either is missing                                          *)
extract_dates(constraints) ==
  LET ss == SelectSeq(constraints, IsStartTok)
      es == SelectSeq(constraints, IsEndTok)
  IN IF ss # << >> /\ es # << >>
       THEN <<Head(ss).value, Head(es).value>>
       ELSE <<"", "">>

extract_year(q) == q.year

(* variant: the category-revenue rule is tried before the top-3 rule *)
generate_category_first(q, constraints) ==
  LET d == extract_dates(constraints)
      start_date == d[1]
      end_date == d[2]
  IN IF Has(q, "category") /\ Has(q, "quantity") /\ start_date # ""
       THEN TemplateSql(1, start_date, end_date, "")
     ELSE IF (Has(q, "aov") \/ Has(q, "average order value")) /\ start_date # ""
       THEN TemplateSql(2, start_date, end_date, "")
     ELSE IF Has(q, "revenue") /\ Has(q, "beverage") /\ start_date # ""
       THEN TemplateSql(4, start_date, end_date, "")
     ELSE IF Has(q, "top 3") /\ Has(q, "product") /\ Has(q, "revenue")
       THEN TemplateSql(3, "", "", "")
     ELSE IF Has(q, "customer") /\ Has(q, "margin") /\ extract_year(q) # ""
       THEN TemplateSql(5, "", "", extract_year(q))
     ELSE NoSql

generate(q, constraints) ==
  LET d == extract_dates(constraints)
      start_date == d[1]
      end_date == d[2]
  IN IF Has(q, "category") /\ Has(q, "quantity") /\ start_date # ""
       THEN TemplateSql(1, start_date, end_date, "")
     ELSE IF (Has(q, "aov") \/ Has(q, "average order value")) /\ start_date # ""
       THEN TemplateSql(2, start_date, end_date, "")
     ELSE IF Has(q, "top 3") /\ Has(q, "product") /\ Has(q, "revenue")
       THEN TemplateSql(3, "", "", "")
     ELSE IF Has(q, "revenue") /\ Has(q, "beverage") /\ start_date # ""
       THEN TemplateSql(4, start_date, end_date, "")
     ELSE IF Has(q, "customer") /\ Has(q, "margin") /\ extract_year(q) # ""
       THEN TemplateSql(5, "", "", extract_year(q))
     ELSE NoSql

(* the filter of generate_sql_node: the date tokens of the season's window, *)
(* else the first date token only; the other tokens are always kept        *)
IsSummerOrOther(c) ==
  \/ (c.kind = "START_DATE" /\ c.value = "2017-06-01")
  \/ (c.kind = "END_DATE" /\ c.value = "2017-06-30")
  \/ ~IsDateTok(c)

IsWinterOrOther(c) ==
  \/ (c.kind = "START_DATE" /\ c.value = "2017-12-01")
  \/ (c.kind = "END_DATE" /\ c.value = "2017-12-31")
  \/ ~IsDateTok(c)

RECURSIVE FirstDateOnly(_, _)
FirstDateOnly(cs, seen_date) ==
  IF cs = << >> THEN << >>
  ELSE IF IsDateTok(Head(cs))
    THEN (IF seen_date THEN << >> ELSE <<Head(cs)>>) \o FirstDateOnly(Tail(cs), TRUE)
    ELSE <<Head(cs)>> \o FirstDateOnly(Tail(cs), seen_date)

(* variant: no filtering, every extracted token reaches the template tier  *)
FilterConstraints_all(q, constraints) == Join(Split(constraints))

(* variant: constraints already stored on the agent are used instead of    *)
(* the request's own                                                       *)
FilterConstraints_shared(q, constraints) ==
  IF agent._current_constraints # << >>
    THEN agent._current_constraints
    ELSE Join(Split(constraints))

FilterConstraints(q, constraints) ==
  LET all_constraints == Split(constraints)
      filtered ==
        IF Has(q, "summer") /\ Has(q, "2017")
          THEN SelectSeq(all_constraints, IsSummerOrOther)
        ELSE IF Has(q, "winter") /\ Has(q, "2017")
          THEN SelectSeq(all_constraints, IsWinterOrOther)
        ELSE FirstDateOnly(all_constraints, FALSE)
  IN Join(filtered)

(* -------------------------------------------------- SQLiteTool (executor) *)
Num(v) == [t |-> "num", v |-> v]

Txt == [t |-> "txt", v |-> 0]

Cells == {Num(0), Num(1234), Txt}

ErrTexts == {"no such table: OrderDetails", "near FROM: syntax error"}

ExcTexts == {"'utf-8' codec can't encode character: surrogates not allowed"}

NoResult == [present |-> FALSE, success |-> FALSE, rows |-> << >>, row_count |-> 0, error |-> ""]

OkResult(rows) ==
  [present |-> TRUE, success |-> TRUE, rows |-> rows, row_count |-> Len(rows), error |-> ""]

FailResult(msg) ==
  [present |-> TRUE, success |-> FALSE, rows |-> << >>, row_count |-> 0, error |-> msg]

(* the row lists of c columns: every row of a result has the same number   *)
(* of columns                                                              *)
RowSets(c) == {<< >>} \cup UNION { [1..n -> [1..c -> Cells]] : n \in 1..MaxRows }

(* the number of columns a template's SELECT list produces *)
TemplateColumns(id) == IF id \in {2, 4} THEN 1 ELSE 2

(* what execute_query can return for a query text: a template yields rows   *)
(* of its SELECT list's width, a generated text rows of any width,         *)
(* 'SELECT 1' the single row (1,); any text can fail with the store's      *)
(* error text                                                              *)
execute_query(sql) ==
  (IF sql.src = "placeholder"
     THEN {OkResult(<< <<Num(1000)>> >>)}
   ELSE IF sql.src = "template"
     THEN {OkResult(r) : r \in RowSets(TemplateColumns(sql.id))}
   ELSE {OkResult(r) : r \in UNION {RowSets(c) : c \in 1..MaxCols}})
  \cup {FailResult(m) : m \in ErrTexts}

(* cursor.execute raises an exception that is not an sqlite3.Error (for     *)
(* instance UnicodeEncodeError on a lone surrogate) only for generated text *)
execute_query_raises(sql) == IF sql.src = "llm" THEN ExcTexts ELSE {}

get_tables_from_query(sql) ==
  IF sql.src = "template" THEN
    CASE sql.id = 1 -> <<"Categories", "Order Details", "Orders", "Products">>
      [] sql.id = 2 -> <<"Order Details", "Orders">>
      [] sql.id = 3 -> <<"Order Details", "Products">>
      [] sql.id = 4 -> <<"Categories", "Order Details", "Orders", "Products">>
      [] OTHER -> <<"Customers", "Order Details", "Orders">>
  ELSE IF sql.src = "llm" THEN
    CASE sql.id = 1 -> <<"Orders">>
      [] sql.id = 2 -> <<"Order Details", "Products">>
      [] OTHER -> << >>
  ELSE << >>

(* ----------------------------------------------------------- sorted(list) *)
(* Python's order of the identifiers that can be cited *)
StringOrder ==
  <<"Categories", "Customers", "Order Details", "Orders", "Products",
    "marketing_calendar::chunk1", "marketing_calendar::chunk2",
    "product_policy::chunk1">>

IndexOf(x) == CHOOSE i \in DOMAIN StringOrder : StringOrder[i] = x

StrLess(a, b) == IndexOf(a) < IndexOf(b)

RECURSIVE sorted(_)
sorted(S) ==
  IF S = {} THEN << >>
  ELSE LET m == CHOOSE x \in S : \A y \in S : y = x \/ StrLess(x, y)
       IN <<m>> \o sorted(S \ {m})

(* ------------------------------------------------------- answer synthesis *)
NoneAnswer == [kind |-> "None", val |-> 0, keys |-> << >>, recs |-> << >>]

IntAnswer(n) == [kind |-> "int", val |-> n, keys |-> << >>, recs |-> << >>]

FloatAnswer(h) == [kind |-> "float", val |-> h, keys |-> << >>, recs |-> << >>]

DictAnswer(k1, k2, name, v) ==
  [kind |-> "dict", val |-> 0, keys |-> <<k1, k2>>, recs |-> << [name |-> name, val |-> v] >>]

ListAnswer(k1, k2, recs) == [kind |-> "list", val |-> 0, keys |-> <<k1, k2>>, recs |-> recs]

(* Python truth value of a final answer *)
Truthy(a) ==
  CASE a.kind = "None" -> FALSE
    [] a.kind \in {"int", "float"} -> a.val # 0
    [] a.kind = "dict" -> TRUE
    [] OTHER -> a.recs # << >>

(* float(x) succeeds *)
CanFloat(c) == c.t = "num"

(* int(float(x)): truncation toward zero, in units *)
IntOf(c) == IF c.v >= 0 THEN c.v \div 1000 ELSE -((-c.v) \div 1000)

(* round(float(x), 2), in hundredths *)
Round2(c) == IF c.v >= 0 THEN (c.v + 5) \div 10 ELSE -((5 - c.v) \div 10)

FirstN(sq, n) == SubSeq(sq, 1, IF Len(sq) < n THEN Len(sq) ELSE n)

(* variant: a value that float() rejects is read as 0 for the int format    *)
_parse_answer_lenient(s) ==
  LET res == s.sql_result
      rows == res.rows
  IN IF ~res.present \/ ~res.success \/ rows = << >> THEN NoneAnswer
     ELSE IF s.format_hint = "int" THEN IntAnswer(0)
     ELSE IF s.format_hint = "float" THEN FloatAnswer(0)
     ELSE DictAnswer("category", "quantity", rows[1][1], 0)

(* variant: the list format takes every row instead of the first three    *)
_parse_answer_untruncated(s) ==
  LET res == s.sql_result
      rows == res.rows
  IN IF ~res.present \/ ~res.success \/ rows = << >> THEN NoneAnswer
     ELSE IF s.format_hint # "list[{product:str, revenue:float}]" THEN NoneAnswer
     ELSE IF \A i \in DOMAIN rows : Len(rows[i]) >= 2 /\ CanFloat(rows[i][2])
       THEN ListAnswer("product", "revenue",
              [i \in DOMAIN rows |-> [name |-> rows[i][1], val |-> Round2(rows[i][2])]])
     ELSE NoneAnswer

_parse_answer(s) ==
  LET res == s.sql_result
      rows == res.rows
      format_hint == s.format_hint
      r1 == rows[1]
  IN IF ~res.present \/ ~res.success \/ rows = << >> THEN NoneAnswer
     ELSE IF r1 = << >> THEN NoneAnswer
     ELSE IF format_hint = "int"
       THEN (IF CanFloat(r1[1]) THEN IntAnswer(IntOf(r1[1])) ELSE NoneAnswer)
     ELSE IF format_hint = "float"
       THEN (IF CanFloat(r1[1]) THEN FloatAnswer(Round2(r1[1])) ELSE NoneAnswer)
     ELSE IF format_hint = "{category:str, quantity:int}"
       THEN (IF Len(r1) >= 2 /\ CanFloat(r1[2])
               THEN DictAnswer("category", "quantity", r1[1], IntOf(r1[2]))
               ELSE NoneAnswer)
     ELSE IF format_hint = "list[{product:str, revenue:float}]"
       THEN LET top == FirstN(rows, TOP_ROWS)
            IN IF \A i \in DOMAIN top : Len(top[i]) >= 2 /\ CanFloat(top[i][2])
                 THEN ListAnswer("product", "revenue",
                        [i \in DOMAIN top |-> [name |-> top[i][1], val |-> Round2(top[i][2])]])
                 ELSE NoneAnswer
     ELSE IF format_hint = "{customer:str, margin:float}"
       THEN (IF Len(r1) >= 2 /\ CanFloat(r1[2])
               THEN DictAnswer("customer", "margin", r1[1], Round2(r1[2]))
               ELSE NoneAnswer)
     ELSE NoneAnswer

IsUnopenedDoc(doc) == doc.unopened >= 0

_extract_from_docs(s) ==
  LET hits == SelectSeq(s.retrieved_docs, IsUnopenedDoc)
  IN IF Has(s.question, "return window") /\ Has(s.question, "beverage") /\ hits # << >>
       THEN IntAnswer(Head(hits).unopened)
       ELSE NoneAnswer

(* variant: the concatenated lists are stored without sorting *)
CitationList_unsorted(s) == s.doc_citations \o s.sql_tables

(* sorted(list(set(citations))) *)
CitationList(s) == sorted(SeqToSet(s.doc_citations \o s.sql_tables))

synthesize_node(s) ==
  LET final_answer == IF s.route = "rag" THEN _extract_from_docs(s) ELSE _parse_answer(s)
      explanation ==
        IF s.route = "rag" THEN "From docs"
        ELSE IF Truthy(final_answer) THEN "From database"
        ELSE "Failed: " \o s.error
  IN [s EXCEPT !.explanation = explanation,
               !.final_answer = final_answer,
               !.citations = CitationList(s),
               !.confidence = IF Truthy(final_answer) THEN HIGH_CONFIDENCE ELSE LOW_CONFIDENCE]

(* variant: the synthesize node is wired back into the repair loop *)
SynthesizeEdge_repair == "repair"

(* workflow.add_edge("synthesize", END) *)
SynthesizeEdge == "END"

(* the record run returns from the final state *)
ResultRecord(s) ==
  [returned |-> TRUE,
   final_answer |-> s.final_answer,
   sql |-> s.sql,
   confidence |-> s.confidence,
   explanation |-> s.explanation,
   citations |-> s.citations,
   trace |-> s.trace]

(* variant: the except branch reports the low confidence of a failed answer *)
FatalRecord_lowconf(e) ==
  [returned |-> TRUE,
   final_answer |-> NoneAnswer,
   sql |-> NoSql,
   confidence |-> LOW_CONFIDENCE,
   explanation |-> "Error: " \o e,
   citations |-> << >>,
   trace |-> <<"Fatal: " \o e>>]

(* the record run returns from its except branch *)
FatalRecord(e) ==
  [returned |-> TRUE,
   final_answer |-> NoneAnswer,
   sql |-> NoSql,
   confidence |-> 0,
   explanation |-> "Error: " \o e,
   citations |-> << >>,
   trace |-> <<"Fatal: " \o e>>]

(* ------------------------------------------------------ workflow stages *)
NoRecord ==
  [returned |-> FALSE, final_answer |-> NoneAnswer, sql |-> NoSql, confidence |-> 0,
   explanation |-> "", citations |-> << >>, trace |-> << >>]

(* initial_state of HybridAgent.run *)
InitialState(question, format_hint) ==
  [question |-> question,
   format_hint |-> format_hint,
   route |-> "",
   retrieved_docs |-> << >>,
   doc_citations |-> << >>,
   constraints |-> << >>,
   sql |-> NoSql,
   sql_result |-> NoResult,
   sql_tables |-> << >>,
   final_answer |-> NoneAnswer,
   explanation |-> "",
   confidence |-> 0,
   citations |-> << >>,
   error |-> "",
   repair_count |-> 0,
   trace |-> << >>,
   previous_errors |-> << >>,
   validation_issues |-> << >>]

route_node(s, llm) ==
  LET route == forward(s.question, llm)
  IN [s EXCEPT !.route = route, !.trace = Append(@, "Route: " \o route)]

route_decision(s) == s.route

(* the edge maps of _build_graph *)
RouteEdges(label) == IF label = "sql" THEN "plan" ELSE "retrieve"

retrieve_node(s, docs) ==
  [s EXCEPT !.retrieved_docs = docs,
            !.doc_citations = [i \in DOMAIN docs |-> docs[i].id],
            !.trace = Append(@, "Retrieved " \o ToString(Len(docs)) \o " docs")]

plan_node(s) ==
  LET constraints == ExtractConstraints(s.retrieved_docs)
  IN [s EXCEPT !.constraints = constraints,
               !.trace = Append(@, "Extracted " \o ToString(Len(constraints)) \o " constraints")]

(* variant: every route that retrieved goes straight to synthesize          *)
plan_decision_retrieved(s) == IF s.route # "sql" THEN "synthesize" ELSE "generate_sql"

(* variant: the doc-only route is sent to query synthesis like the others  *)
plan_decision_nodoconly(s) == "generate_sql"

plan_decision(s) == IF s.route = "rag" THEN "synthesize" ELSE "generate_sql"

(* what the fallback tier (get_schema, sql_gen, _clean_sql) can produce: a   *)
(* cleaned generated text, or an exception; at names the call that was     *)
(* reached last: "sql_gen" when the generative module was called,          *)
(* "get_schema" when reading the schema raised before that call            *)
GenOutcomes ==
  {[raises |-> FALSE, at |-> "sql_gen", sql |-> LLMSql(k)] : k \in 1..NumLLMSql}
  \cup {[raises |-> TRUE, at |-> a, sql |-> NoSql] : a \in {"get_schema", "sql_gen"}}

(* variant: the template tier's result is ignored                          *)
generate_sql_node_notemplate(s, gen) ==
  IF ~gen.raises
    THEN [s EXCEPT !.sql = gen.sql, !.trace = Append(@, "Generated SQL (LLM)")]
  ELSE [s EXCEPT !.sql = PlaceholderSql, !.error = "SQL generation failed"]

(* variant: the except branch leaves the query text as it was              *)
generate_sql_node_noplaceholder(s, gen) ==
  LET enhanced_constraints == FilterConstraints(s.question, s.constraints)
      sql == generate(s.question, enhanced_constraints)
  IN IF sql # NoSql
       THEN [s EXCEPT !.sql = sql, !.trace = Append(@, "Generated SQL (template)")]
     ELSE IF ~gen.raises
       THEN [s EXCEPT !.sql = gen.sql, !.trace = Append(@, "Generated SQL (LLM)")]
     ELSE [s EXCEPT !.error = "SQL generation failed"]

(* variant: the template tier is fed the constraints the agent kept from   *)
(* the previous visit instead of the ones computed in this visit           *)
generate_sql_node_stale(s, gen) ==
  LET sql == generate(s.question, agent._current_constraints)
  IN IF sql # NoSql
       THEN [s EXCEPT !.sql = sql, !.trace = Append(@, "Generated SQL (template)")]
     ELSE IF ~gen.raises
       THEN [s EXCEPT !.sql = gen.sql, !.trace = Append(@, "Generated SQL (LLM)")]
     ELSE [s EXCEPT !.sql = PlaceholderSql, !.error = "SQL generation failed"]

generate_sql_node(s, gen) ==
  LET enhanced_constraints == FilterConstraints(s.question, s.constraints)
      sql == generate(s.question, enhanced_constraints)
  IN IF sql # NoSql
       THEN [s EXCEPT !.sql = sql, !.trace = Append(@, "Generated SQL (template)")]
     ELSE IF ~gen.raises
       THEN [s EXCEPT !.sql = gen.sql, !.trace = Append(@, "Generated SQL (LLM)")]
     ELSE [s EXCEPT !.sql = PlaceholderSql, !.error = "SQL generation failed"]

(* variant: a failed execution does not store its error text in state.error *)
execute_sql_node_noerror(s, res) ==
  IF res.success
    THEN [s EXCEPT !.sql_result = res,
                   !.sql_tables = get_tables_from_query(s.sql),
                   !.trace = Append(@, "SQL OK: " \o ToString(res.row_count) \o " rows"),
                   !.error = ""]
    ELSE [s EXCEPT !.sql_result = res,
                   !.previous_errors = Append(@, res.error),
                   !.trace = Append(@, "SQL error")]

(* variant: only the last error text is kept                               *)
execute_sql_node_lasterror(s, res) ==
  IF res.success
    THEN [s EXCEPT !.sql_result = res,
                   !.sql_tables = get_tables_from_query(s.sql),
                   !.trace = Append(@, "SQL OK: " \o ToString(res.row_count) \o " rows"),
                   !.error = ""]
    ELSE [s EXCEPT !.sql_result = res,
                   !.error = res.error,
                   !.previous_errors = <<res.error>>,
                   !.trace = Append(@, "SQL error")]

(* variant: the tables of the query text are recorded whether or not the  *)
(* execution succeeded                                                     *)
execute_sql_node_alwaystables(s, res) ==
  IF res.success
    THEN [s EXCEPT !.sql_result = res,
                   !.sql_tables = get_tables_from_query(s.sql),
                   !.trace = Append(@, "SQL OK: " \o ToString(res.row_count) \o " rows"),
                   !.error = ""]
    ELSE [s EXCEPT !.sql_result = res,
                   !.sql_tables = get_tables_from_query(s.sql),
                   !.error = res.error,
                   !.previous_errors = Append(@, res.error),
                   !.trace = Append(@, "SQL error")]

execute_sql_node(s, res) ==
  IF res.success
    THEN [s EXCEPT !.sql_result = res,
                   !.sql_tables = get_tables_from_query(s.sql),
                   !.trace = Append(@, "SQL OK: " \o ToString(res.row_count) \o " rows"),
                   !.error = ""]
    ELSE [s EXCEPT !.sql_result = res,
                   !.error = res.error,
                   !.previous_errors = Append(@, res.error),
                   !.trace = Append(@, "SQL error")]

(* variant: a failed execution goes straight to answer synthesis *)
execute_decision_norepair(s) ==
  IF s.sql_result.success THEN "validate" ELSE "synthesize"

(* variant: a failed execution is repaired only while no repair was made   *)
execute_decision_early(s) ==
  IF s.sql_result.success THEN "validate"
  ELSE IF s.repair_count >= 1 THEN "synthesize"
  ELSE "repair"

execute_decision(s) ==
  IF s.sql_result.success THEN "validate"
  ELSE IF s.repair_count >= MAX_REPAIRS THEN "synthesize"
  ELSE "repair"

HasBrace(format_hint) ==
  format_hint \in {"{category:str, quantity:int}", "list[{product:str, revenue:float}]",
                   "{customer:str, margin:float}"}

HasList(format_hint) == format_hint = "list[{product:str, revenue:float}]"

(* variant: a list-of-records format is held to the record rule as well    *)
validate_node_listasrecord(s) ==
  LET res == s.sql_result
      format_hint == s.format_hint
      row == res.rows[1]
      issues ==
        IF res.rows = << >> THEN <<"No rows">>
        ELSE IF format_hint \in {"int", "float"} /\ Len(row) # 1
          THEN <<"Expected 1 col, got " \o ToString(Len(row))>>
        ELSE IF HasBrace(format_hint) /\ Len(row) < 2
          THEN <<"Expected 2+ cols, got " \o ToString(Len(row))>>
        ELSE << >>
  IN [s EXCEPT !.validation_issues = issues]

validate_node(s) ==
  LET res == s.sql_result
      format_hint == s.format_hint
      row == res.rows[1]
      issues ==
        IF res.rows = << >> THEN <<"No rows">>
        ELSE IF format_hint \in {"int", "float"} /\ Len(row) # 1
          THEN <<"Expected 1 col, got " \o ToString(Len(row))>>
        ELSE IF HasBrace(format_hint) /\ ~HasList(format_hint) /\ Len(row) < 2
          THEN <<"Expected 2+ cols, got " \o ToString(Len(row))>>
        ELSE << >>
  IN [s EXCEPT !.validation_issues = issues]

(* variant: validation issues never lead to a repair *)
validate_decision_norepair(s) == "synthesize"

validate_decision(s) ==
  IF s.validation_issues # << >> /\ s.repair_count < MAX_REPAIRS THEN "repair"
  ELSE "synthesize"

(* '; '.join(issues): validate_node records at most one issue *)
JoinIssues(issues) == IF issues = << >> THEN "" ELSE issues[1]

(* variant: the repair count grows faster than one per visit *)
repair_node_double(s) == [s EXCEPT !.repair_count = @ + @ + 1]

(* variant: the repair count is not incremented *)
repair_node_noinc(s) == s

(* variant: the repair stage also drops the extracted constraints         *)
repair_node_reset(s) == [s EXCEPT !.repair_count = @ + 1, !.constraints = << >>]

repair_node(s) == [s EXCEPT !.repair_count = @ + 1]

(* variant: the repair loop is left one repair later *)
repair_decision_late(s) == IF s.repair_count >= MAX_REPAIRS + 1 THEN "synthesize" ELSE "generate_sql"

(* variant: the repair count is compared with > instead of >=              *)
repair_decision_gt(s) == IF s.repair_count > MAX_REPAIRS THEN "synthesize" ELSE "generate_sql"

repair_decision(s) == IF s.repair_count >= MAX_REPAIRS THEN "synthesize" ELSE "generate_sql"

(* ---------------------------------------------------------------- actions *)
(* pc: "idle" before the first request, the stage about to run, "END" when  *)
(* the graph has finished, "raised" when a stage raised out of              *)
(* graph.invoke, "returned" when run has returned its record.              *)
(* ------------------------------------------- query texts for the executor *)
(* A query text, as far as execute_query, _attempt_fix and the cleaning    *)
(* passes look at it: od lists, for each occurrence of the words           *)
(* Order Details in text order, the number of double-quote pairs around    *)
(* it (0 = unquoted); cmp is TRUE when the text holds a comparison         *)
(* OrderDate <op> 'yyyy-mm-dd' without the date() wrapper; yr is TRUE when *)
(* it holds a call of YEAR(...).                                           *)
SqlTexts ==
  { [od |-> o, cmp |-> c, yr |-> y] :
      o \in UNION { [1..n -> 0..1] : n \in 0..MaxOcc }, c \in BOOLEAN, y \in BOOLEAN }

NoText == [od |-> << >>, cmp |-> FALSE, yr |-> FALSE]

(* re.sub(r'\bOrder\s+Details\b', '"Order Details"', ...): the pattern     *)
(* matches the two words whether or not quotes surround them, so every     *)
(* occurrence gains one pair of quotes                                     *)
QuoteOrderDetails(t) == [t EXCEPT !.od = [i \in DOMAIN t.od |-> t.od[i] + 1]]

WrapOrderDate(t) == [t EXCEPT !.cmp = FALSE]

ReplaceYearCall(t) == [t EXCEPT !.yr = FALSE]

(* the messages of sqlite3.Error the store can answer with, and the tests  *)
(* _attempt_fix makes on the lower-cased message                           *)
StoreErrors ==
  {"no such table: OrderDetails", "near FROM: syntax error",
   "datatype mismatch", "no such function: YEAR"}

IsNoSuchTableOrder(e) == e = "no such table: OrderDetails"

IsTypeError(e) == e = "datatype mismatch"

IsYearError(e) == e = "no such function: YEAR"

_attempt_fix(sql, error_msg) ==
  IF IsNoSuchTableOrder(error_msg) /\ QuoteOrderDetails(sql) # sql
    THEN QuoteOrderDetails(sql)
  ELSE IF IsTypeError(error_msg) /\ WrapOrderDate(sql) # sql
    THEN WrapOrderDate(sql)
  ELSE IF IsYearError(error_msg) /\ ReplaceYearCall(sql) # sql
    THEN ReplaceYearCall(sql)
  ELSE sql

(* variant: a fixed text is retried whatever the attempt number           *)
RetryAllowed_always(attempt) == TRUE

(* "if attempt < max_retries" *)
RetryAllowed(attempt) == attempt < MAX_RETRIES

(* one call of execute_query: its position, the text of the next attempt,  *)
(* the loop variable, and as history the number of cursor.execute calls    *)
(* and the messages of the failed ones; ret is the returned dictionary     *)
NoExResult == [present |-> FALSE, success |-> FALSE, row_count |-> 0, error |-> "", sql_used |-> NoText]

ExIdle ==
  [pc |-> "idle", sql |-> NoText, original_sql |-> NoText, attempt |-> 0,
   store_calls |-> 0, errors |-> << >>, ret |-> NoExResult]

(* ------------------------------------------------ the batch driver (main) *)
(* An input record, as far as main looks at it: its id, and whether        *)
(* console.print renders the markup of the question text (printable) or    *)
(* raises on it, as rich does for a text with an unmatched closing tag     *)
(* such as "[/b]".                                                         *)
BatchIds == {"q1", "q2"}

BatchRecords == [id : BatchIds, printable : BOOLEAN]

BatchInputs == UNION { [1..n -> BatchRecords] : n \in 0..MaxBatch }

(* the record main builds from the result of agent.run                     *)
OutputOk(q) == [id |-> q.id, error |-> FALSE]

(* the record main builds in its except branch                             *)
OutputError(q) == [id |-> q.id, error |-> TRUE]

(* pc: "idle", "print" (before the console.print of the question), "try"   *)
(* (before the try statement), "write" (after the loop), "done",           *)
(* "aborted" (an exception left main); i is the index of the current       *)
(* record; results is the list built by the loop, written the file         *)
BatchIdle ==
  [pc |-> "idle", questions |-> << >>, i |-> 1, results |-> << >>, written |-> << >>]

(* -------------------------------- several calls of run on one store/agent *)
(* world holds what calls of run share besides the agent.  The documents   *)
(* and the store do not change between the calls: docs maps a question to  *)
(* the list the retriever returned for it, store maps each query text      *)
(* executed so far to the outcome of executing it, schema tells whether    *)
(* get_schema succeeded ("ok") or raised ("raise"), edge whether the graph *)
(* library kept the write validate_decision makes.  route and gen map a    *)
(* question to the first output route_predictor and sql_gen gave for it;   *)
(* llm_same is FALSE once a later call of one of them returned something   *)
(* else.  run counts the calls of run made one after the other, first is   *)
(* the record the first of them returned.                                  *)
Known(f, k, v) == k \in DOMAIN f => f[k] = v

Put(f, k, v) == [x \in DOMAIN f \cup {k} |-> IF x \in DOMAIN f THEN f[x] ELSE v]

NoGen == [raises |-> FALSE, at |-> "", sql |-> NoSql]

(* what executing a query text does: execute_query returns a result, or an *)
(* exception that is not an sqlite3.Error leaves it; the results drawn are *)
(* those of execute_query with at most one row, of one column for a        *)
(* generated text                                                          *)
StoreOutcomes(sql) ==
  {[raises |-> FALSE, res |-> r, exc |-> ""] :
     r \in {x \in execute_query(sql) :
              /\ x.row_count <= 1
              /\ (sql.src = "llm" /\ x.row_count = 1) => Len(x.rows[1]) = 1}}
  \cup {[raises |-> TRUE, res |-> NoResult, exc |-> e] : e \in execute_query_raises(sql)}

WorldIdle ==
  [run |-> 0, first |-> NoRecord, docs |-> << >>, route |-> << >>, gen |-> << >>,
   store |-> << >>, schema |-> "unknown", edge |-> "unknown", llm_same |-> TRUE]

(* the outputs of route_predictor and sql_gen are drawn freely only in the *)
(* second of two calls of run made one after the other; everywhere else a  *)
(* question gets the output it got before                                  *)
Strict(w) == w.run # 2

(* route_node for state s in world w: the new state and world              *)
RouteOutcomes(s, w) ==
  IF ConsultsLLM(s.question)
    THEN {[state |-> route_node(s, llm),
           world |-> [w EXCEPT !.route = Put(@, s.question, llm),
                               !.llm_same = @ /\ Known(w.route, s.question, llm)]] :
            llm \in {l \in LLMRouteOutputs : Strict(w) => Known(w.route, s.question, l)}}
    ELSE {[state |-> route_node(s, "unsure"), world |-> w]}

(* retrieve_node: the retriever returns the list it returned before        *)
RetrieveOutcomes(s, w) ==
  {[state |-> retrieve_node(s, ChunksOf(d)),
    world |-> [w EXCEPT !.docs = Put(@, s.question, d)]] :
     d \in {x \in DocLists : Known(w.docs, s.question, x)}}

(* generate_sql_node on an agent a: the fallback tier runs only when no    *)
(* template matched; get_schema reads the unchanged store (or its cache),  *)
(* so it raises every time or never                                        *)
GenerateSqlOutcomes(s, w, a) ==
  {[state |-> generate_sql_node(s, gen),
    gen |-> gen,
    agent |-> [a EXCEPT !._current_constraints = FilterConstraints(s.question, s.constraints),
                        !._schema_cache = @ \/ gen.at = "sql_gen"],
    world |-> [w EXCEPT !.schema = IF gen.at = "get_schema" THEN "raise"
                                   ELSE IF gen.at = "sql_gen" THEN "ok" ELSE @,
                        !.gen = IF gen.at = "sql_gen" THEN Put(@, s.question, gen) ELSE @,
                        !.llm_same = @ /\ (gen.at = "sql_gen" => Known(w.gen, s.question, gen))]] :
     gen \in {g \in GenOutcomes \cup {NoGen} :
                /\ (g = NoGen) <=> (generate_sql_node(s, g).sql.src = "template")
                /\ g.at = "get_schema" => ~a._schema_cache /\ w.schema # "ok"
                /\ g.at = "sql_gen" => a._schema_cache \/ w.schema # "raise"
                /\ (g.at = "sql_gen" /\ Strict(w)) => Known(w.gen, s.question, g)}}

(* execute_sql_node: executing a query text again does what it did before  *)
ExecuteSqlOutcomes(s, w) ==
  {[raises |-> o.raises,
    exc |-> o.exc,
    state |-> IF o.raises THEN s ELSE execute_sql_node(s, o.res),
    world |-> [w EXCEPT !.store = Put(@, s.sql, o)]] :
     o \in {x \in StoreOutcomes(s.sql) : Known(w.store, s.sql, x)}}

(* validate_node and validate_decision: the graph library keeps the write  *)
(* validate_decision makes every time or never                             *)
ValidateOutcomes(s, w) ==
  LET s1 == validate_node(s)
      d == validate_decision(s1)
  IN IF d = "repair"
       THEN {[pc |-> d,
              state |-> IF e = "kept"
                          THEN [s1 EXCEPT !.error = JoinIssues(s1.validation_issues)]
                          ELSE s1,
              world |-> [w EXCEPT !.edge = e]] :
               e \in {x \in {"kept", "dropped"} : w.edge \in {"unknown", x}}}
       ELSE {[pc |-> d, state |-> s1, world |-> w]}

(* ----------------------------------- two requests at once on one agent *)
(* conc.req[r] is request r's call of run: its position, its own pipeline  *)
(* state (initial_state is built per call), the record it returned and the *)
(* exception that left graph.invoke.  The agent is shared.  writer is the  *)
(* request whose get_schema call filled the schema cache (0: nobody);      *)
(* foreign is the set of agent fields of which a stage of one request read *)
(* a value another request wrote; alone is the request that is afterwards  *)
(* run once more, by itself, on a new agent over the same store and        *)
(* documents (0: none yet).                                                *)
Requests == 1..2

ReqIdle ==
  [pc |-> "idle", state |-> InitialState(NoQuestion, ""), result |-> NoRecord, exc |-> ""]

ConcIdle ==
  [req |-> [r \in Requests |-> ReqIdle], writer |-> 0, foreign |-> {}, alone |-> 0]

NewAgent == [_current_constraints |-> << >>, _schema_cache |-> FALSE]

(* ------------------------- the cleaning passes over a generated query text *)
(* sql.replace('"""', '"') in _clean_sql: in a run of quote characters     *)
(* every three become one, from the left                                   *)
CollapseTripleQuotes(t) ==
  [t EXCEPT !.od = [i \in DOMAIN t.od |-> (t.od[i] \div 3) + (t.od[i] % 3)]]

(* NLToSQLModule._clean_and_fix_sql: spaced tells whether white space      *)
(* stands between OrderDate and the comparison operator (the pattern asks  *)
(* for it), is2017 whether the YEAR(...) call is compared with 2017        *)
_clean_and_fix_sql(t, spaced, is2017) ==
  LET quoted == QuoteOrderDetails(t)
      wrapped == IF spaced THEN WrapOrderDate(quoted) ELSE quoted
  IN IF is2017 THEN ReplaceYearCall(wrapped) ELSE wrapped

(* HybridAgent._clean_sql                                                  *)
_clean_sql(t) == QuoteOrderDetails(CollapseTripleQuotes(t))

(* clean follows one generated text: pc is "idle", "raw" (the generative   *)
(* module returned raw), "fixed" (sql_gen returned, after                  *)
(* _clean_and_fix_sql), "cleaned" (after _clean_sql, the text              *)
(* generate_sql_node stores)                                               *)
CleanIdle == [pc |-> "idle", raw |-> NoText, sql |-> NoText]

(* runs, exec_log, failures and llm_calls are history variables of the     *)
(* current request: the number of visits of each stage, the outcome ("ok"  *)
(* / "fail") of each completed call of execute_query, the collaborator     *)
(* calls that raised an exception, and the calls made to the generative    *)
(* modules (route_predictor, sql_gen).                                     *)
(* hist is a history variable of the current request as well: errors is   *)
(* the list of the error texts execute_query returned, in order; invalid   *)
(* the number of times validate_node found an issue; tables the table      *)
(* names get_tables_from_query finds in the query texts that executed      *)
(* successfully.                                                           *)
NoHist == [errors |-> << >>, invalid |-> 0, tables |-> {}]

Visit(stage) == [runs EXCEPT ![stage] = @ + 1]

NoRuns == [st \in Stages |-> 0]

Init ==
  /\ pc = "idle"
  /\ state = InitialState(NoQuestion, "")
  /\ result = NoRecord
  /\ exc = ""
  /\ agent = NewAgent
  /\ runs = NoRuns
  /\ exec_log = << >>
  /\ failures = << >>
  /\ llm_calls = << >>
  /\ ex = ExIdle
  /\ batch = BatchIdle
  /\ world = WorldIdle
  /\ conc = ConcIdle
  /\ clean = CleanIdle
  /\ hist = NoHist

(* HybridAgent.run is called: the initial state enters the graph *)
Run ==
  /\ pc \in {"idle", "returned"}
  /\ \E question \in Questions, format_hint \in FormatHints :
       state' = InitialState(question, format_hint)
  /\ pc' = "route"
  /\ result' = NoRecord
  /\ exc' = ""
  /\ runs' = NoRuns
  /\ exec_log' = << >>
  /\ failures' = << >>
  /\ llm_calls' = << >>
  /\ UNCHANGED agent
  /\ hist' = NoHist
  /\ UNCHANGED <<ex, batch, world, conc, clean>>

RouteStep ==
  /\ pc = "route"
  /\ \E llm \in (IF ConsultsLLM(state.question) THEN LLMRouteOutputs ELSE {"unsure"}) :
       /\ state' = route_node(state, llm)
       /\ failures' = IF llm = "<raise>" THEN Append(failures, "route_predictor") ELSE failures
  /\ llm_calls' = IF ConsultsLLM(state.question)
                    THEN Append(llm_calls, "route_predictor") ELSE llm_calls
  /\ pc' = RouteEdges(route_decision(state'))
  /\ runs' = Visit("route")
  /\ UNCHANGED <<result, exc, agent, exec_log>>
  /\ UNCHANGED <<ex, batch, world, conc, clean, hist>>

RetrieveStep ==
  /\ pc = "retrieve"
  /\ \E d \in DocLists : state' = retrieve_node(state, ChunksOf(d))
  /\ pc' = "plan"
  /\ runs' = Visit("retrieve")
  /\ UNCHANGED <<result, exc, agent, exec_log, failures, llm_calls>>
  /\ UNCHANGED <<ex, batch, world, conc, clean, hist>>

PlanStep ==
  /\ pc = "plan"
  /\ state' = plan_node(state)
  /\ pc' = plan_decision(state')
  /\ runs' = Visit("plan")
  /\ UNCHANGED <<result, exc, agent, exec_log, failures, llm_calls>>
  /\ UNCHANGED <<ex, batch, world, conc, clean, hist>>

(* get_schema returns its cached text once a call of it has succeeded, so  *)
(* it can raise only while the cache is empty                              *)
GenerateSqlStep ==
  /\ pc = "generate_sql"
  /\ \E gen \in (IF generate(state.question, FilterConstraints(state.question, state.constraints)) # NoSql
                   THEN {[raises |-> FALSE, at |-> "", sql |-> NoSql]}
                   ELSE {g \in GenOutcomes : g.at = "get_schema" => ~agent._schema_cache}) :
       /\ state' = generate_sql_node(state, gen)
       /\ failures' = IF gen.raises THEN Append(failures, gen.at) ELSE failures
       /\ llm_calls' = IF gen.at = "sql_gen" THEN Append(llm_calls, "sql_gen") ELSE llm_calls
       /\ agent' = [agent EXCEPT
                      !._current_constraints =
                         FilterConstraints(state.question, state.constraints),
                      !._schema_cache = @ \/ gen.at = "sql_gen"]
  /\ pc' = "execute_sql"
  /\ runs' = Visit("generate_sql")
  /\ UNCHANGED <<result, exc, exec_log>>
  /\ UNCHANGED <<ex, batch, world, conc, clean, hist>>

ExecuteSqlStep ==
  /\ pc = "execute_sql"
  /\ \E res \in execute_query(state.sql) :
       /\ state' = execute_sql_node(state, res)
       /\ exec_log' = Append(exec_log, IF res.success THEN "ok" ELSE "fail")
       /\ hist' = IF res.success
                    THEN [hist EXCEPT !.tables =
                            @ \cup SeqToSet(get_tables_from_query(state.sql))]
                    ELSE [hist EXCEPT !.errors = Append(@, res.error)]
  /\ pc' = execute_decision(state')
  /\ runs' = Visit("execute_sql")
  /\ UNCHANGED <<result, exc, agent, failures, llm_calls>>
  /\ UNCHANGED <<ex, batch, world, conc, clean>>

(* execute_query raises: the exception leaves graph.invoke *)
ExecuteSqlRaise ==
  /\ pc = "execute_sql"
  /\ \E e \in execute_query_raises(state.sql) : exc' = e
  /\ pc' = "raised"
  /\ runs' = Visit("execute_sql")
  /\ failures' = Append(failures, "execute_query")
  /\ UNCHANGED <<state, result, agent, exec_log, llm_calls>>
  /\ UNCHANGED <<ex, batch, world, conc, clean, hist>>

(* validate_decision assigns state['error'] inside the edge function; the   *)
(* graph library decides whether an edge function's write to its argument  *)
(* reaches the state, so both outcomes are possible                        *)
ValidateStep ==
  /\ pc = "validate"
  /\ LET s1 == validate_node(state)
         d == validate_decision(s1)
     IN /\ pc' = d
        /\ \/ state' = s1
           \/ /\ d = "repair"
              /\ state' = [s1 EXCEPT !.error = JoinIssues(s1.validation_issues)]
  /\ runs' = Visit("validate")
  /\ UNCHANGED <<result, exc, agent, exec_log, failures, llm_calls>>
  /\ hist' = IF validate_node(state).validation_issues # << >>
               THEN [hist EXCEPT !.invalid = @ + 1] ELSE hist
  /\ UNCHANGED <<ex, batch, world, conc, clean>>

RepairStep ==
  /\ pc = "repair"
  /\ state' = repair_node(state)
  /\ pc' = repair_decision(state')
  /\ runs' = Visit("repair")
  /\ UNCHANGED <<result, exc, agent, exec_log, failures, llm_calls>>
  /\ UNCHANGED <<ex, batch, world, conc, clean, hist>>

SynthesizeStep ==
  /\ pc = "synthesize"
  /\ state' = synthesize_node(state)
  /\ pc' = SynthesizeEdge
  /\ runs' = Visit("synthesize")
  /\ UNCHANGED <<result, exc, agent, exec_log, failures, llm_calls>>
  /\ UNCHANGED <<ex, batch, world, conc, clean, hist>>

(* run: graph.invoke returned the final state *)
RunReturn ==
  /\ pc = "END"
  /\ result' = ResultRecord(state)
  /\ pc' = "returned"
  /\ UNCHANGED <<state, exc, agent, runs, exec_log, failures, llm_calls>>
  /\ UNCHANGED <<ex, batch, world, conc, clean, hist>>

(* run: the except branch *)
RunExcept ==
  /\ pc = "raised"
  /\ result' = FatalRecord(exc)
  /\ pc' = "returned"
  /\ UNCHANGED <<state, exc, agent, runs, exec_log, failures, llm_calls>>
  /\ UNCHANGED <<ex, batch, world, conc, clean, hist>>

Next ==
  \/ Run
  \/ RouteStep
  \/ RetrieveStep
  \/ PlanStep
  \/ GenerateSqlStep
  \/ ExecuteSqlStep
  \/ ExecuteSqlRaise
  \/ ValidateStep
  \/ RepairStep
  \/ SynthesizeStep
  \/ RunReturn
  \/ RunExcept

Spec == Init /\ [][Next]_vars

(* ----------------------------------------------- the front of the workflow *)
(* one request over the whole vocabulary, followed from route up to the    *)
(* end of generate_sql_node (or up to synthesize on the doc-only route)    *)
FrontRun ==
  /\ pc = "idle"
  /\ \E question \in VocabQuestions :
       state' = InitialState(question, "float")
  /\ pc' = "route"
  /\ result' = NoRecord
  /\ exc' = ""
  /\ runs' = NoRuns
  /\ exec_log' = << >>
  /\ failures' = << >>
  /\ llm_calls' = << >>
  /\ UNCHANGED agent
  /\ hist' = NoHist
  /\ UNCHANGED <<ex, batch, world, conc, clean>>

FrontRetrieve ==
  /\ pc = "retrieve"
  /\ \E d \in FrontDocLists : state' = retrieve_node(state, ChunksOf(d))
  /\ pc' = "plan"
  /\ runs' = Visit("retrieve")
  /\ UNCHANGED <<result, exc, agent, exec_log, failures, llm_calls>>
  /\ UNCHANGED <<ex, batch, world, conc, clean, hist>>

FrontNext ==
  \/ FrontRun
  \/ RouteStep
  \/ FrontRetrieve
  \/ PlanStep
  \/ GenerateSqlStep

FrontSpec == Init /\ [][FrontNext]_vars

(* ------------------------------------------------- the template tier alone *)
(* the words TemplateSQLGenerator.generate tests, one year token for        *)
(* extract_year, the season word that lets a date range through the        *)
(* filter of generate_sql_node, the router's temporal qualifier, and the   *)
(* two words of the documented triggers that generate does not test        *)
TemplateVocabulary ==
  {"category", "quantity", "aov", "average order value", "top 3", "product",
   "revenue", "beverage", "customer", "margin", "2017", "summer", "during",
   "highest", "all-time"}

(* every question over the template vocabulary *)
TemplateQuestions ==
  { [text |-> "", kw |-> K, year |-> IF "2017" \in K THEN "2017" ELSE ""] :
      K \in SUBSET TemplateVocabulary }

TemplateRun ==
  /\ pc = "idle"
  /\ \E question \in TemplateQuestions :
       state' = InitialState(question, "float")
  /\ pc' = "route"
  /\ result' = NoRecord
  /\ exc' = ""
  /\ runs' = NoRuns
  /\ exec_log' = << >>
  /\ failures' = << >>
  /\ llm_calls' = << >>
  /\ UNCHANGED agent
  /\ hist' = NoHist
  /\ UNCHANGED <<ex, batch, world, conc, clean>>

TemplateNext ==
  \/ TemplateRun
  \/ RouteStep
  \/ FrontRetrieve
  \/ PlanStep
  \/ GenerateSqlStep

TemplateSpec == Init /\ [][TemplateNext]_vars

(* ------------------------------------------- answer synthesis for a list *)
(* the non-empty row lists a generated query can return, every row of the  *)
(* same width: one column (the list format's second column is missing) or  *)
(* two (the columns it reads)                                              *)
ParseRowSets ==
  UNION { [1..n -> [1..c -> Cells]] : n \in 1..ParseRows, c \in {1, 2} }

(* a request for a list of records on the store-only route up to the end   *)
(* of validation: no template matches the question, the generated query    *)
(* executes and returns rows, which validate_node accepts for a list       *)
ParseLoad ==
  /\ pc = "idle"
  /\ \E rows \in ParseRowSets, k \in 1..NumLLMSql :
       LET question == CHOOSE q \in Questions : q.kw = {"how many"}
           s0 == InitialState(question, "list[{product:str, revenue:float}]")
           s1 == plan_node(route_node(s0, "sql"))
           s2 == generate_sql_node(s1, [raises |-> FALSE, at |-> "sql_gen", sql |-> LLMSql(k)])
           s3 == validate_node(execute_sql_node(s2, OkResult(rows)))
       IN /\ state' = s3
          /\ pc' = validate_decision(s3)
  /\ runs' = [st \in Stages |->
                IF st \in {"route", "plan", "generate_sql", "execute_sql", "validate"}
                  THEN 1 ELSE 0]
  /\ exec_log' = <<"ok">>
  /\ llm_calls' = <<"route_predictor", "sql_gen">>
  /\ agent' = [agent EXCEPT !._schema_cache = TRUE]
  /\ hist' = [hist EXCEPT !.tables = SeqToSet(state'.sql_tables)]
  /\ UNCHANGED <<result, exc, failures>>
  /\ UNCHANGED <<ex, batch, world, conc, clean>>

ParseNext ==
  \/ ParseLoad
  \/ SynthesizeStep
  \/ RunReturn

ParseSpec == Init /\ [][ParseNext]_vars

(* ------------------------------------------ SQLiteTool.execute_query alone *)
Others == <<pc, state, result, exc, agent, runs, exec_log, failures, llm_calls, batch,
            world, conc, clean, hist>>

(* execute_query(sql) is called with max_retries at its default            *)
ExCall ==
  /\ ex.pc \in {"idle", "returned", "raised"}
  /\ \E sql \in SqlTexts :
       ex' = [pc |-> "attempt", sql |-> sql, original_sql |-> sql, attempt |-> 0,
              store_calls |-> 0, errors |-> << >>, ret |-> NoExResult]
  /\ UNCHANGED Others

(* one iteration of the for loop: the store answers with rows, with an     *)
(* sqlite3.Error, or the driver raises an exception of another class,      *)
(* which leaves execute_query; when the loop is exhausted the final return *)
(* statement is reached                                                    *)
ExAttempt ==
  /\ ex.pc = "attempt"
  /\ IF ex.attempt > MAX_RETRIES
       THEN ex' = [ex EXCEPT !.pc = "returned",
                             !.ret = [present |-> TRUE, success |-> FALSE, row_count |-> 0,
                                      error |-> "Max retries exceeded",
                                      sql_used |-> ex.original_sql]]
       ELSE \/ \E n \in 0..MaxRows :
                 ex' = [ex EXCEPT !.pc = "returned",
                                  !.store_calls = @ + 1,
                                  !.ret = [present |-> TRUE, success |-> TRUE, row_count |-> n,
                                           error |-> "", sql_used |-> ex.sql]]
            \/ \E e \in StoreErrors :
                 LET fixed_sql == _attempt_fix(ex.sql, e)
                 IN IF RetryAllowed(ex.attempt) /\ fixed_sql # ex.sql
                      THEN ex' = [ex EXCEPT !.sql = fixed_sql,
                                            !.attempt = @ + 1,
                                            !.store_calls = @ + 1,
                                            !.errors = Append(@, e)]
                      ELSE ex' = [ex EXCEPT !.pc = "returned",
                                            !.store_calls = @ + 1,
                                            !.errors = Append(@, e),
                                            !.ret = [present |-> TRUE, success |-> FALSE,
                                                     row_count |-> 0, error |-> e,
                                                     sql_used |-> ex.original_sql]]
            \/ ex' = [ex EXCEPT !.pc = "raised", !.store_calls = @ + 1]
  /\ UNCHANGED Others

ExecNext ==
  \/ ExCall
  \/ ExAttempt

ExecSpec == Init /\ [][ExecNext]_vars

(* ------------------------------------------------------- main of the batch *)
BatchOthers == <<pc, state, result, exc, agent, runs, exec_log, failures, llm_calls, ex,
                 world, conc, clean, hist>>

(* the input file is read into questions                                   *)
BatchLoad ==
  /\ batch.pc = "idle"
  /\ \E qs \in BatchInputs :
       batch' = [batch EXCEPT !.pc = IF qs = << >> THEN "write" ELSE "print",
                              !.questions = qs]
  /\ UNCHANGED BatchOthers

(* console.print of the question, before the try statement                 *)
BatchPrintQuestion ==
  /\ batch.pc = "print"
  /\ batch' = [batch EXCEPT !.pc = IF batch.questions[batch.i].printable
                                     THEN "try" ELSE "aborted"]
  /\ UNCHANGED BatchOthers

(* the loop goes on with the next record, or ends after the last one       *)
AfterRecord(b) == IF b.i = Len(b.questions) THEN "write" ELSE "print"

(* the try statement: agent.run returns and the output record is built and *)
(* printed, or something in the block raises an Exception and the except   *)
(* branch builds the error record; the record is appended                  *)
BatchProcess ==
  /\ batch.pc = "try"
  /\ \E raised \in BOOLEAN :
       LET q == batch.questions[batch.i]
           output == IF raised THEN OutputError(q) ELSE OutputOk(q)
       IN batch' = [batch EXCEPT !.results = Append(@, output),
                                 !.i = @ + 1,
                                 !.pc = AfterRecord(batch)]
  /\ UNCHANGED BatchOthers

(* the outputs are written, one line per element of results               *)
BatchWrite ==
  /\ batch.pc = "write"
  /\ batch' = [batch EXCEPT !.pc = "done", !.written = batch.results]
  /\ UNCHANGED BatchOthers

BatchNext ==
  \/ BatchLoad
  \/ BatchPrintQuestion
  \/ BatchProcess
  \/ BatchWrite

BatchSpec == Init /\ [][BatchNext]_vars

(* ----------------------------- run called twice on one agent (run 405-446) *)
(* the requests made twice: one answered from documents only, one whose    *)
(* query comes from a template with a date window, one whose query comes   *)
(* from the fallback tier                                                  *)
IdemQuestions == {q \in Questions : q.kw \cap {"policy", "summer", "how many"} # {}}

IdemFormats == {"int", "{category:str, quantity:int}"}

IdemFrame == <<runs, exec_log, failures, llm_calls, ex, batch, conc, clean, hist>>

(* run is called: the first time with any question and format, the second  *)
(* time, after the first call returned, with the same ones                 *)
IdemRun ==
  /\ pc \in {"idle", "returned"}
  /\ world.run < 2
  /\ IF world.run = 0
       THEN /\ \E question \in IdemQuestions, format_hint \in IdemFormats :
                 state' = InitialState(question, format_hint)
            /\ world' = [world EXCEPT !.run = 1]
       ELSE /\ state' = InitialState(state.question, state.format_hint)
            /\ world' = [world EXCEPT !.run = 2, !.first = result]
  /\ pc' = "route"
  /\ result' = NoRecord
  /\ exc' = ""
  /\ UNCHANGED agent
  /\ UNCHANGED IdemFrame

IdemRoute ==
  /\ pc = "route"
  /\ \E o \in RouteOutcomes(state, world) :
       /\ state' = o.state
       /\ world' = o.world
  /\ pc' = RouteEdges(route_decision(state'))
  /\ UNCHANGED <<result, exc, agent>>
  /\ UNCHANGED IdemFrame

IdemRetrieve ==
  /\ pc = "retrieve"
  /\ \E o \in RetrieveOutcomes(state, world) :
       /\ state' = o.state
       /\ world' = o.world
  /\ pc' = "plan"
  /\ UNCHANGED <<result, exc, agent>>
  /\ UNCHANGED IdemFrame

IdemPlan ==
  /\ pc = "plan"
  /\ state' = plan_node(state)
  /\ pc' = plan_decision(state')
  /\ UNCHANGED <<result, exc, agent, world>>
  /\ UNCHANGED IdemFrame

IdemGenerateSql ==
  /\ pc = "generate_sql"
  /\ \E o \in GenerateSqlOutcomes(state, world, agent) :
       /\ state' = o.state
       /\ agent' = o.agent
       /\ world' = o.world
  /\ pc' = "execute_sql"
  /\ UNCHANGED <<result, exc>>
  /\ UNCHANGED IdemFrame

IdemExecuteSql ==
  /\ pc = "execute_sql"
  /\ \E o \in ExecuteSqlOutcomes(state, world) :
       /\ state' = o.state
       /\ world' = o.world
       /\ exc' = IF o.raises THEN o.exc ELSE exc
       /\ pc' = IF o.raises THEN "raised" ELSE execute_decision(o.state)
  /\ UNCHANGED <<result, agent>>
  /\ UNCHANGED IdemFrame

IdemValidate ==
  /\ pc = "validate"
  /\ \E o \in ValidateOutcomes(state, world) :
       /\ state' = o.state
       /\ world' = o.world
       /\ pc' = o.pc
  /\ UNCHANGED <<result, exc, agent>>
  /\ UNCHANGED IdemFrame

IdemRepair ==
  /\ pc = "repair"
  /\ state' = repair_node(state)
  /\ pc' = repair_decision(state')
  /\ UNCHANGED <<result, exc, agent, world>>
  /\ UNCHANGED IdemFrame

IdemSynthesize ==
  /\ pc = "synthesize"
  /\ state' = synthesize_node(state)
  /\ pc' = SynthesizeEdge
  /\ UNCHANGED <<result, exc, agent, world>>
  /\ UNCHANGED IdemFrame

IdemReturn ==
  /\ pc = "END"
  /\ result' = ResultRecord(state)
  /\ pc' = "returned"
  /\ UNCHANGED <<state, exc, agent, world>>
  /\ UNCHANGED IdemFrame

IdemExcept ==
  /\ pc = "raised"
  /\ result' = FatalRecord(exc)
  /\ pc' = "returned"
  /\ UNCHANGED <<state, exc, agent, world>>
  /\ UNCHANGED IdemFrame

IdemNext ==
  \/ IdemRun
  \/ IdemRoute
  \/ IdemRetrieve
  \/ IdemPlan
  \/ IdemGenerateSql
  \/ IdemExecuteSql
  \/ IdemValidate
  \/ IdemRepair
  \/ IdemSynthesize
  \/ IdemReturn
  \/ IdemExcept

IdemSpec == Init /\ [][IdemNext]_vars

(* ------------------- two calls of run whose stages interleave (run 405-446) *)
(* the first request's query comes from the fallback tier, the second's    *)
(* from the fallback tier or from a template with a date window; the      *)
(* retriever returns at most ConcDocs chunks                               *)
ConcQuestions ==
  [Requests -> {q \in Questions : q.kw \cap {"summer", "how many"} # {}}]

FirstIsFallback(question) == "how many" \in question[1].kw

ConcFormats == {"int"}

ConcDocs == 1

(* the store's outcomes drawn for the two requests: an exception, the      *)
(* failure "near FROM: syntax error", no row, or a row of the number 1234  *)
ConcStoreOutcome(o) ==
  \/ o.raises
  \/ /\ ~o.state.sql_result.success
     /\ o.state.sql_result.error = "near FROM: syntax error"
  \/ /\ o.state.sql_result.success
     /\ \A i \in DOMAIN o.state.sql_result.rows :
          \A j \in DOMAIN o.state.sql_result.rows[i] :
             o.state.sql_result.rows[i][j] = Num(1234)

ConcFrame == <<pc, state, result, exc, runs, exec_log, failures, llm_calls, ex, batch, clean, hist>>

At(r, stage) == conc.req[r].pc = stage

Moved(r, p, s) == [conc EXCEPT !.req[r].pc = p, !.req[r].state = s]

(* run is called for both requests                                         *)
ConcStart ==
  /\ pc = "idle"
  /\ world.run = 0
  /\ \A r \in Requests : At(r, "idle")
  /\ \E question \in {x \in ConcQuestions : FirstIsFallback(x)},
        format_hint \in [Requests -> ConcFormats] :
       conc' = [conc EXCEPT !.req =
                  [r \in Requests |->
                     [ReqIdle EXCEPT !.pc = "route",
                                     !.state = InitialState(question[r], format_hint[r])]]]
  /\ UNCHANGED <<agent, world>>
  /\ UNCHANGED ConcFrame

ConcRoute ==
  /\ \E r \in Requests :
       /\ At(r, "route")
       /\ \E o \in RouteOutcomes(conc.req[r].state, world) :
            /\ conc' = Moved(r, RouteEdges(route_decision(o.state)), o.state)
            /\ world' = o.world
  /\ UNCHANGED agent
  /\ UNCHANGED ConcFrame

ConcRetrieve ==
  /\ \E r \in Requests :
       /\ At(r, "retrieve")
       /\ \E o \in RetrieveOutcomes(conc.req[r].state, world) :
            /\ Len(o.state.retrieved_docs) <= ConcDocs
            /\ conc' = Moved(r, "plan", o.state)
            /\ world' = o.world
  /\ UNCHANGED agent
  /\ UNCHANGED ConcFrame

ConcPlan ==
  /\ \E r \in Requests :
       /\ At(r, "plan")
       /\ LET s1 == plan_node(conc.req[r].state)
          IN conc' = Moved(r, plan_decision(s1), s1)
  /\ UNCHANGED <<agent, world>>
  /\ UNCHANGED ConcFrame

(* generate_sql_node assigns self._current_constraints and reads none of   *)
(* the agent's fields; the fallback tier's get_schema returns the cached   *)
(* schema when a call has filled the cache (sqlite_tool.py 40-41)          *)
ConcGenerateSql ==
  /\ \E r \in Requests :
       /\ At(r, "generate_sql")
       /\ \E o \in GenerateSqlOutcomes(conc.req[r].state, world, agent) :
            /\ conc' = [Moved(r, "execute_sql", o.state) EXCEPT
                          !.writer = IF o.gen.at = "sql_gen" /\ ~agent._schema_cache
                                       THEN r ELSE @,
                          !.foreign = IF /\ o.gen.at = "sql_gen"
                                         /\ agent._schema_cache
                                         /\ conc.writer # r
                                        THEN @ \cup {"_schema_cache"} ELSE @]
            /\ agent' = o.agent
            /\ world' = o.world
  /\ UNCHANGED ConcFrame

ConcExecuteSql ==
  /\ \E r \in Requests :
       /\ At(r, "execute_sql")
       /\ \E o \in ExecuteSqlOutcomes(conc.req[r].state, world) :
            /\ ConcStoreOutcome(o)
            /\ conc' = [Moved(r, IF o.raises THEN "raised" ELSE execute_decision(o.state),
                              o.state)
                          EXCEPT !.req[r].exc = IF o.raises THEN o.exc ELSE @]
            /\ world' = o.world
  /\ UNCHANGED agent
  /\ UNCHANGED ConcFrame

ConcValidate ==
  /\ \E r \in Requests :
       /\ At(r, "validate")
       /\ \E o \in ValidateOutcomes(conc.req[r].state, world) :
            /\ conc' = Moved(r, o.pc, o.state)
            /\ world' = o.world
  /\ UNCHANGED agent
  /\ UNCHANGED ConcFrame

ConcRepair ==
  /\ \E r \in Requests :
       /\ At(r, "repair")
       /\ LET s1 == repair_node(conc.req[r].state)
          IN conc' = Moved(r, repair_decision(s1), s1)
  /\ UNCHANGED <<agent, world>>
  /\ UNCHANGED ConcFrame

ConcSynthesize ==
  /\ \E r \in Requests :
       /\ At(r, "synthesize")
       /\ conc' = Moved(r, SynthesizeEdge, synthesize_node(conc.req[r].state))
  /\ UNCHANGED <<agent, world>>
  /\ UNCHANGED ConcFrame

ConcReturn ==
  /\ \E r \in Requests :
       /\ At(r, "END")
       /\ conc' = [conc EXCEPT !.req[r].pc = "returned",
                                !.req[r].result = ResultRecord(conc.req[r].state)]
  /\ UNCHANGED <<agent, world>>
  /\ UNCHANGED ConcFrame

ConcExcept ==
  /\ \E r \in Requests :
       /\ At(r, "raised")
       /\ conc' = [conc EXCEPT !.req[r].pc = "returned",
                                !.req[r].result = FatalRecord(conc.req[r].exc)]
  /\ UNCHANGED <<agent, world>>
  /\ UNCHANGED ConcFrame

(* after both requests returned, one of them is run by itself on a new     *)
(* agent over the same store and documents                                 *)
AloneRun ==
  /\ pc = "idle"
  /\ conc.alone = 0
  /\ \A r \in Requests : At(r, "returned")
  /\ \E r \in Requests :
       /\ conc' = [conc EXCEPT !.alone = r]
       /\ state' = InitialState(conc.req[r].state.question, conc.req[r].state.format_hint)
  /\ pc' = "route"
  /\ agent' = NewAgent
  /\ UNCHANGED <<result, exc, world>>
  /\ UNCHANGED <<runs, exec_log, failures, llm_calls, ex, batch, clean, hist>>

ConcNext ==
  \/ ConcStart
  \/ ConcRoute
  \/ ConcRetrieve
  \/ ConcPlan
  \/ ConcGenerateSql
  \/ ConcExecuteSql
  \/ ConcValidate
  \/ ConcRepair
  \/ ConcSynthesize
  \/ ConcReturn
  \/ ConcExcept
  \/ AloneRun
  \/ IdemRoute
  \/ IdemRetrieve
  \/ IdemPlan
  \/ IdemGenerateSql
  \/ IdemExecuteSql
  \/ IdemValidate
  \/ IdemRepair
  \/ IdemSynthesize
  \/ IdemReturn
  \/ IdemExcept

ConcSpec == Init /\ [][ConcNext]_vars

(* ------------- a request whose calls of the generative modules take time *)
(* route_predictor (dspy_signatures.py 59) and sql_gen (graph_hybrid.py    *)
(* 257) are calls to a language model server.  The call and its return are *)
(* two steps: between them the request is at "route_predictor" or at       *)
(* "sql_gen".  Neither call site passes a timeout and nothing else in the  *)
(* request runs while the call is pending.                                 *)
LiveQuestions == {q \in Questions : q.kw \cap {"summer", "how many"} # {}}

LiveFormats == {"int", "float"}

LiveFrame == <<ex, batch, world, conc, clean, hist>>

LiveRun ==
  /\ pc \in {"idle", "returned"}
  /\ \E question \in LiveQuestions, format_hint \in LiveFormats :
       state' = InitialState(question, format_hint)
  /\ pc' = "route"
  /\ result' = NoRecord
  /\ exc' = ""
  /\ runs' = NoRuns
  /\ exec_log' = << >>
  /\ failures' = << >>
  /\ llm_calls' = << >>
  /\ UNCHANGED agent
  /\ hist' = NoHist
  /\ UNCHANGED <<ex, batch, world, conc, clean>>

(* forward returns from one of its keyword rules                           *)
RouteByKeyword ==
  /\ ~ConsultsLLM(state.question)
  /\ RouteStep

(* forward calls route_predictor                                           *)
RoutePredictorCall ==
  /\ pc = "route"
  /\ ConsultsLLM(state.question)
  /\ pc' = "route_predictor"
  /\ llm_calls' = Append(llm_calls, "route_predictor")
  /\ UNCHANGED <<state, result, exc, agent, runs, exec_log, failures>>
  /\ UNCHANGED LiveFrame

(* route_predictor returns or raises; route_node goes on                   *)
RoutePredictorReturn ==
  /\ pc = "route_predictor"
  /\ \E llm \in LLMRouteOutputs :
       /\ state' = route_node(state, llm)
       /\ failures' = IF llm = "<raise>" THEN Append(failures, "route_predictor") ELSE failures
  /\ pc' = RouteEdges(route_decision(state'))
  /\ runs' = Visit("route")
  /\ UNCHANGED <<result, exc, agent, exec_log, llm_calls>>
  /\ UNCHANGED LiveFrame

(* generate_sql_node finishes without calling sql_gen: a template matched  *)
(* or get_schema raised                                                    *)
GenerateWithoutLLM ==
  /\ GenerateSqlStep
  /\ llm_calls' = llm_calls

(* no template matched and get_schema returned: sql_gen is called          *)
SqlGenCall ==
  /\ pc = "generate_sql"
  /\ generate(state.question, FilterConstraints(state.question, state.constraints)) = NoSql
  /\ pc' = "sql_gen"
  /\ llm_calls' = Append(llm_calls, "sql_gen")
  /\ agent' = [agent EXCEPT
                 !._current_constraints = FilterConstraints(state.question, state.constraints),
                 !._schema_cache = TRUE]
  /\ UNCHANGED <<state, result, exc, runs, exec_log, failures>>
  /\ UNCHANGED LiveFrame

(* sql_gen returns or raises; generate_sql_node goes on                    *)
SqlGenReturn ==
  /\ pc = "sql_gen"
  /\ \E gen \in {g \in GenOutcomes : g.at = "sql_gen"} :
       /\ state' = generate_sql_node(state, gen)
       /\ failures' = IF gen.raises THEN Append(failures, gen.at) ELSE failures
  /\ pc' = "execute_sql"
  /\ runs' = Visit("generate_sql")
  /\ UNCHANGED <<result, exc, agent, exec_log, llm_calls>>
  /\ UNCHANGED LiveFrame

(* the steps the request takes by itself                                   *)
OwnStep ==
  \/ RouteByKeyword
  \/ RoutePredictorCall
  \/ RetrieveStep
  \/ PlanStep
  \/ GenerateWithoutLLM
  \/ SqlGenCall
  \/ ExecuteSqlStep
  \/ ExecuteSqlRaise
  \/ ValidateStep
  \/ RepairStep
  \/ SynthesizeStep
  \/ RunReturn
  \/ RunExcept

LiveNext ==
  \/ LiveRun
  \/ OwnStep
  \/ RoutePredictorReturn
  \/ SqlGenReturn

(* the request's own steps are taken when they can be; whether the server  *)
(* ever answers a pending call is not up to the request                    *)
LiveSpec == Init /\ [][LiveNext]_vars /\ WF_vars(OwnStep)

(* ------------------ a generated text on its way into the pipeline state *)
CleanOthers ==
  <<pc, state, result, exc, agent, runs, exec_log, failures, llm_calls, ex, batch, world,
    conc, hist>>

(* NLToSQLModule.forward: the generative module (or                        *)
(* _fallback_sql_generation) produced a text                               *)
SqlGeneratorPredict ==
  /\ clean.pc \in {"idle", "cleaned"}
  /\ \E raw \in SqlTexts : clean' = [pc |-> "raw", raw |-> raw, sql |-> raw]
  /\ UNCHANGED CleanOthers

(* NLToSQLModule.forward line 104                                          *)
CleanAndFixSql ==
  /\ clean.pc = "raw"
  /\ \E spaced \in BOOLEAN, is2017 \in BOOLEAN :
       clean' = [clean EXCEPT !.pc = "fixed",
                              !.sql = _clean_and_fix_sql(clean.sql, spaced, is2017)]
  /\ UNCHANGED CleanOthers

(* generate_sql_node line 258                                              *)
CleanSql ==
  /\ clean.pc = "fixed"
  /\ clean' = [clean EXCEPT !.pc = "cleaned", !.sql = _clean_sql(clean.sql)]
  /\ UNCHANGED CleanOthers

CleanNext ==
  \/ SqlGeneratorPredict
  \/ CleanAndFixSql
  \/ CleanSql

CleanSpec == Init /\ [][CleanNext]_vars

(* ------------------------------------------------------------ properties *)
Visits ==
  runs["route"] + runs["retrieve"] + runs["plan"] + runs["generate_sql"]
  + runs["execute_sql"] + runs["validate"] + runs["repair"] + runs["synthesize"]

Fatal == exc # ""

AnswerKinds == {"None", "int", "float", "dict", "list"}

WellFormed(r) ==
  /\ r.returned
  /\ r.final_answer.kind \in AnswerKinds
  /\ r.sql.src \in {"", "template", "llm", "placeholder"}
  /\ r.confidence \in {0, LOW_CONFIDENCE, HIGH_CONFIDENCE}
  /\ r.explanation # ""
  /\ \A i \in DOMAIN r.citations : r.citations[i] \in SeqToSet(StringOrder)

IsSortedNoDup(c) == \A i, j \in DOMAIN c : i < j => StrLess(c[i], c[j])

LastExecFailed == exec_log # << >> /\ exec_log[Len(exec_log)] = "fail"

(* C1: in every reachable state the repair attempt counter is between 0    *)
(* and 2 inclusive.                                                        *)
C1_RepairCountBounded == state.repair_count \in 0..2

C1_Witness == pc = "synthesize" /\ state.repair_count = 2

(* C2 as stated: when the result record is returned, answer synthesis has  *)
(* run exactly once, whatever happened on the way.                         *)
C2_Original == pc = "returned" => runs["synthesize"] = 1

(* C2 amended: answer synthesis runs at most once; it has run exactly once *)
(* when the graph finishes and when a record is returned, unless a stage   *)
(* raised out of the graph, in which case it has not run; after it no      *)
(* stage runs and the pipeline state does not change.                      *)
C2_SynthesisOnceUnlessFatal ==
  /\ [](/\ runs["synthesize"] <= 1
        /\ (pc = "END" => runs["synthesize"] = 1)
        /\ (pc = "raised" => runs["synthesize"] = 0)
        /\ (pc = "returned" => runs["synthesize"] = (IF Fatal THEN 0 ELSE 1)))
  /\ [][(runs["synthesize"] = 1 /\ pc' # "route") => (state' = state /\ runs' = runs)]_vars

C2_Witness ==
  pc = "returned" /\ ~Fatal /\ runs["synthesize"] = 1 /\ runs["repair"] = 2

(* C3 as stated: whenever a stage or a collaborator call raised during the *)
(* request, the returned record has an absent final answer, confidence 0.0 *)
(* and the explanation carrying the error text.                            *)
C3_Original ==
  (pc = "returned" /\ failures # << >>) =>
    /\ result.final_answer = NoneAnswer
    /\ result.confidence = 0
    /\ result.explanation = "Error: " \o exc

(* C3 amended: run always returns a well-formed record; a stage that raised*)
(* is always followed by the return of the except branch's record, which   *)
(* has an absent final answer, confidence 0.0 and the explanation          *)
(* "Error: " + the error text; when no exception left the graph the record *)
(* is taken from the final state, also when the fallback classifier or the *)
(* generative query call raised and was handled inside its stage.          *)
C3_RunReturnsRecord ==
  /\ [](pc = "returned" =>
          /\ WellFormed(result)
          /\ (Fatal => /\ result.final_answer = NoneAnswer
                       /\ result.confidence = 0
                       /\ result.explanation = "Error: " \o exc)
          /\ (~Fatal => /\ result.final_answer = state.final_answer
                        /\ result.confidence = state.confidence
                        /\ result.confidence \in {LOW_CONFIDENCE, HIGH_CONFIDENCE}))
  /\ [][pc = "raised" => (pc' = "returned" /\ result'.returned)]_vars

C3_Witness == pc = "returned" /\ Fatal /\ result.explanation = "Error: " \o exc

(* C4: when the first two executions of a request both fail, there is no   *)
(* third execution, and when answer synthesis has run the repair count is  *)
(* 2, the final answer is absent, the confidence is the low value and the  *)
(* explanation carries the error text of the last failed execution.        *)
C4_TwoFailures ==
  (Len(exec_log) >= 2 /\ exec_log[1] = "fail" /\ exec_log[2] = "fail") =>
    /\ runs["execute_sql"] = 2
    /\ pc \in {"repair", "synthesize", "END", "returned"}
    /\ (pc = "synthesize" => state.repair_count = 2)
    /\ (runs["synthesize"] = 1 =>
          /\ state.repair_count = 2
          /\ state.final_answer = NoneAnswer
          /\ state.confidence = LOW_CONFIDENCE
          /\ state.sql_result.error = state.previous_errors[2]
          /\ state.explanation = "Failed: " \o state.sql_result.error)
    /\ (pc = "returned" =>
          /\ result.final_answer = NoneAnswer
          /\ result.confidence = LOW_CONFIDENCE
          /\ result.explanation = "Failed: " \o state.previous_errors[2])

C4_Witness ==
  /\ pc = "returned"
  /\ exec_log = <<"fail", "fail">>
  /\ state.previous_errors[1] # state.previous_errors[2]
  /\ result.explanation = "Failed: " \o state.previous_errors[2]

(* C5: query synthesis is re-run at most twice after the first attempt,    *)
(* every unfinished request can take a step, and the record returned at    *)
(* the end is well formed.                                                 *)
C5_BoundedRetries ==
  /\ runs["generate_sql"] <= 1 + 2
  /\ (pc \notin {"idle", "returned"} => ENABLED Next)
  /\ (pc = "returned" => WellFormed(result))

C5_Witness ==
  /\ pc = "returned"
  /\ runs["generate_sql"] = 2
  /\ exec_log[1] = "fail"
  /\ WellFormed(result)

(* C6 as stated: a request makes at most 7 stage visits in total.          *)
C6_Original == Visits <= 7

(* C6 amended: a request makes at most 12 stage visits in total (route,    *)
(* retrieve, plan, two rounds of generate, execute, validate and repair,   *)
(* and the answer synthesis), and the graph has finished after that many.  *)
C6_AtMostTwelveVisits ==
  /\ Visits <= 12
  /\ (Visits = 12 => pc \in {"END", "returned"})

C6_Witness == pc = "END" /\ Visits = 12

(* C7 as stated: at the end of every request the citations are sorted,     *)
(* free of duplicates and equal as a set to the retrieved chunk            *)
(* identifiers together with the touched-table names.                      *)
C7_Original ==
  pc = "returned" =>
    /\ IsSortedNoDup(result.citations)
    /\ SeqToSet(result.citations) = SeqToSet(state.doc_citations) \cup SeqToSet(state.sql_tables)

(* C7 amended: the citations of every returned record are sorted and free  *)
(* of duplicates; they equal the union of the retrieved chunk identifiers  *)
(* and the touched-table names when the request reached answer synthesis,  *)
(* and are empty in the record of the except branch.                       *)
C7_CitationsSortedUnion ==
  pc = "returned" =>
    /\ IsSortedNoDup(result.citations)
    /\ (~Fatal => SeqToSet(result.citations) =
                    SeqToSet(state.doc_citations) \cup SeqToSet(state.sql_tables))
    /\ (Fatal => result.citations = << >>)

C7_Witness ==
  /\ pc = "returned"
  /\ ~Fatal
  /\ result.final_answer = NoneAnswer
  /\ state.doc_citations # << >>
  /\ state.sql_tables # << >>
  /\ Len(result.citations) = Len(state.doc_citations) + Len(state.sql_tables)

(* C8: once answer synthesis has run, the confidence is the high value     *)
(* exactly when the final answer is not absent and the low value exactly   *)
(* when it is absent.                                                      *)
C8_ConfidenceIffAnswer ==
  runs["synthesize"] = 1 =>
    /\ (state.confidence = HIGH_CONFIDENCE <=> state.final_answer # NoneAnswer)
    /\ (state.confidence = LOW_CONFIDENCE <=> state.final_answer = NoneAnswer)

(* C9: a completed execute-query stage is followed by validate when the    *)
(* execution succeeded, by repair when it failed with a repair count below *)
(* 2, and by synthesize-answer when it failed with a repair count of 2 or  *)
(* more.                                                                   *)
C9_ExecuteSuccessor ==
  [][(pc = "execute_sql" /\ pc' # "raised") =>
       pc' = (IF state'.sql_result.success THEN "validate"
              ELSE IF state'.repair_count < 2 THEN "repair"
              ELSE "synthesize")]_vars

C9_Witness == pc = "repair" /\ LastExecFailed /\ state.repair_count < 2

(* C10: validate is followed by synthesize-answer when the issue list is   *)
(* empty or the repair count is 2 or more, and by repair otherwise.        *)
C10_ValidateSuccessor ==
  [][pc = "validate" =>
       pc' = (IF state'.validation_issues = << >> \/ state'.repair_count >= 2
                THEN "synthesize" ELSE "repair")]_vars

C10_Witness ==
  /\ pc = "repair"
  /\ ~LastExecFailed
  /\ state.validation_issues # << >>
  /\ runs["validate"] = 2

(* C11: each visit of the repair stage increments the repair count by     *)
(* exactly one and appends an entry to the execution trace; the next stage *)
(* is synthesize-query when the new count is below 2 and synthesize-answer *)
(* otherwise.                                                              *)
C11_RepairVisit ==
  [][pc = "repair" =>
       /\ state'.repair_count = state.repair_count + 1
       /\ Len(state'.trace) = Len(state.trace) + 1
       /\ pc' = (IF state'.repair_count < 2 THEN "generate_sql" ELSE "synthesize")]_vars

(* C12: after route, retrieve runs if and only if the route is doc-only    *)
(* (rag) or both (hybrid), store-only (sql) going straight to plan;        *)
(* retrieve is always followed by plan; after plan the next stage is       *)
(* synthesize-answer if and only if the route is doc-only, and             *)
(* synthesize-query otherwise.                                             *)
C12_FrontEdges ==
  /\ [][/\ pc = "route" =>
             pc' = (IF state'.route \in {"rag", "hybrid"} THEN "retrieve" ELSE "plan")
        /\ pc = "retrieve" => pc' = "plan"
        /\ pc = "plan" =>
             /\ state'.route = state.route
             /\ pc' = (IF state.route = "rag" THEN "synthesize" ELSE "generate_sql")]_vars
  /\ [](pc \notin {"idle", "route", "retrieve"} =>
          runs["retrieve"] = (IF state.route \in {"rag", "hybrid"} THEN 1 ELSE 0))

C12_Witness ==
  /\ pc = "generate_sql"
  /\ state.route = "hybrid"
  /\ runs["retrieve"] = 1
  /\ runs["plan"] = 1
  /\ runs["generate_sql"] = 0

(* C13: the route classifier returns exactly one of the three labels for  *)
(* every question and every behaviour of the fallback classifier (valid    *)
(* label, invalid label, malformed output or raised exception); a failure  *)
(* of the fallback call is a non-match and never propagates: the route     *)
(* stage completes and the workflow goes on.                               *)
C13_RouteAlwaysLabel ==
  /\ [][pc = "route" =>
          /\ state'.route \in Routes
          /\ pc' \in {"retrieve", "plan"}
          /\ exc' = ""]_vars
  /\ [](runs["route"] = 1 => state.route \in Routes /\ ~Fatal)

C13_Witness ==
  /\ pc = "retrieve"
  /\ failures = <<"route_predictor">>
  /\ state.route = "hybrid"
  /\ state.question.kw = {"customer", "margin", "2019"}

(* the vocabularies of the three lexical route rules, read off the        *)
(* question of the current request                                        *)
C14_Policy == \E w \in {"policy", "return window", "return days", "according to"} :
                w \in state.question.kw

C14_Aggregate == \E w \in {"top 3", "top products", "all-time", "total revenue"} :
                   w \in state.question.kw

C14_Temporal == \E w \in {"during", "summer", "winter", "campaign", "2016", "2017", "2018"} :
                  w \in state.question.kw

TemplateAnswer ==
  generate(state.question, FilterConstraints(state.question, state.constraints))

(* C15 as stated: in each visit of synthesize-query the generative         *)
(* collaborator is called if and only if the template tier yields no       *)
(* query; when a template matches, the stored query text is exactly the    *)
(* template's output.                                                      *)
C15_Original ==
  [][pc = "generate_sql" =>
       /\ (llm_calls' # llm_calls) <=> (TemplateAnswer = NoSql)
       /\ TemplateAnswer # NoSql => state'.sql = TemplateAnswer]_vars

(* C15 amended: in each visit of synthesize-query the generative           *)
(* collaborator is called only if the template tier yields no query, and   *)
(* it is called (once) whenever the tier yields none and reading the       *)
(* schema, which precedes the call, does not raise; when reading the       *)
(* schema raises the collaborator is not called and the placeholder query  *)
(* is stored; when a template matches, the stored query text is exactly    *)
(* the template's output.                                                  *)
C15_FallbackOnlyWithoutTemplate ==
  [][pc = "generate_sql" =>
       /\ (llm_calls' # llm_calls) => (TemplateAnswer = NoSql)
       /\ (TemplateAnswer = NoSql /\ failures' # Append(failures, "get_schema")) =>
            llm_calls' = Append(llm_calls, "sql_gen")
       /\ (TemplateAnswer = NoSql /\ failures' = Append(failures, "get_schema")) =>
            (llm_calls' = llm_calls /\ state'.sql = PlaceholderSql)
       /\ TemplateAnswer # NoSql =>
            (state'.sql = TemplateAnswer /\ state'.sql.src = "template")]_vars

C15_Witness ==
  /\ pc = "execute_sql"
  /\ runs["generate_sql"] = 2
  /\ llm_calls = <<"sql_gen", "sql_gen">>
  /\ state.sql.src = "llm"

(* the question names a season together with its year                     *)
SeasonQuestion ==
  \/ ("summer" \in state.question.kw /\ "2017" \in state.question.kw)
  \/ ("winter" \in state.question.kw /\ "2017" \in state.question.kw)

IsOtherTok(c) == ~IsDateTok(c)

(* C16: in synthesize-query, when the question does not contain a season   *)
(* keyword together with its year and the extracted constraint list holds  *)
(* several date ranges, the constraint list passed to the template tier    *)
(* keeps the first discovered date pair (its start token and its end       *)
(* token) plus all non-date tokens, and drops every later date token.      *)
C16_FirstDatePairKept ==
  (pc = "execute_sql" /\ runs["generate_sql"] = 1 /\ ~SeasonQuestion
     /\ Len(SelectSeq(state.constraints, IsDateTok)) >= 4) =>
    LET dates == SelectSeq(state.constraints, IsDateTok)
        kept == agent._current_constraints
    IN /\ SelectSeq(kept, IsDateTok) = <<dates[1], dates[2]>>
       /\ SelectSeq(kept, IsOtherTok) = SelectSeq(state.constraints, IsOtherTok)

(* the date tokens of the two season windows                              *)
IsSummerTok(c) ==
  c \in {Tok("START_DATE", "2017-06-01"), Tok("END_DATE", "2017-06-30")}

IsWinterTok(c) ==
  c \in {Tok("START_DATE", "2017-12-01"), Tok("END_DATE", "2017-12-31")}

(* the list handed to the template tier holds, of the date tokens, exactly *)
(* the extracted ones of the summer (winter) window, and every extracted   *)
(* non-date token                                                          *)
KeepsSummerOnly ==
  LET kept == agent._current_constraints
  IN /\ SelectSeq(kept, IsDateTok) = SelectSeq(state.constraints, IsSummerTok)
     /\ SelectSeq(kept, IsOtherTok) = SelectSeq(state.constraints, IsOtherTok)

KeepsWinterOnly ==
  LET kept == agent._current_constraints
  IN /\ SelectSeq(kept, IsDateTok) = SelectSeq(state.constraints, IsWinterTok)
     /\ SelectSeq(kept, IsOtherTok) = SelectSeq(state.constraints, IsOtherTok)

(* C17 as stated: when the question contains 'summer' (respectively        *)
(* 'winter') and '2017', the filtered constraint list keeps only the date  *)
(* tokens of that season's window plus all non-date tokens.                *)
C17_Original ==
  (pc = "execute_sql" /\ runs["generate_sql"] = 1) =>
    /\ ("summer" \in state.question.kw /\ "2017" \in state.question.kw) => KeepsSummerOnly
    /\ ("winter" \in state.question.kw /\ "2017" \in state.question.kw) => KeepsWinterOnly

(* C17 amended: when the question contains 'summer' and '2017' the         *)
(* filtered list keeps only the date tokens of the summer window           *)
(* (2017-06-01 / 2017-06-30) plus all non-date tokens; when it contains    *)
(* 'winter' and '2017' but not 'summer', only those of the winter window   *)
(* (2017-12-01 / 2017-12-31) plus all non-date tokens; the template tier   *)
(* then never uses a date of another window.                               *)
C17_SeasonWindowOnly ==
  (pc = "execute_sql" /\ runs["generate_sql"] = 1) =>
    /\ ("summer" \in state.question.kw /\ "2017" \in state.question.kw) =>
         /\ KeepsSummerOnly
         /\ state.sql.start \in {"", "2017-06-01"}
         /\ state.sql.end \in {"", "2017-06-30"}
    /\ ("winter" \in state.question.kw /\ "2017" \in state.question.kw
          /\ "summer" \notin state.question.kw) =>
         /\ KeepsWinterOnly
         /\ state.sql.start \in {"", "2017-12-01"}
         /\ state.sql.end \in {"", "2017-12-31"}

C17_Witness ==
  /\ pc = "execute_sql"
  /\ runs["generate_sql"] = 1
  /\ state.question.kw = {"aov", "winter", "2017"}
  /\ Len(SelectSeq(state.constraints, IsSummerTok)) = 4
  /\ Len(SelectSeq(state.constraints, IsWinterTok)) = 4
  /\ state.sql = TemplateSql(2, "2017-12-01", "2017-12-31", "")

(* C18: when the fallback tier's call to the generative collaborator       *)
(* raises, the request is not aborted: the query text becomes the trivial  *)
(* placeholder query 'SELECT 1' and the workflow proceeds to execute-query *)
(* as usual.                                                               *)
C18_PlaceholderOnRaise ==
  [][(pc = "generate_sql" /\ failures' # failures) =>
       /\ state'.sql = PlaceholderSql
       /\ pc' = "execute_sql"
       /\ exc' = ""
       /\ runs' = [runs EXCEPT !["generate_sql"] = @ + 1]]_vars

C18_Witness ==
  /\ pc = "validate"
  /\ failures = <<"sql_gen">>
  /\ llm_calls = <<"sql_gen">>
  /\ state.sql = PlaceholderSql
  /\ state.sql_result.success

(* C19: when the query synthesizer's generative fallback call fails, an    *)
(* entry recording the generation failure is present in the execution      *)
(* trace returned with the request's result: route, retrieve, plan and     *)
(* execute-query append one entry per visit, so the returned trace then    *)
(* holds one entry for every visit of these stages and of                  *)
(* synthesize-query, the failed visits included.                           *)
C19_FailureInTrace ==
  (pc = "returned" /\ ~Fatal /\ "sql_gen" \in SeqToSet(failures)) =>
    Len(result.trace) = runs["route"] + runs["retrieve"] + runs["plan"]
                        + runs["generate_sql"] + runs["execute_sql"]

(* the expected formats by shape                                          *)
ScalarFormats == {"int", "float"}

RecordFormats == {"{category:str, quantity:int}", "{customer:str, margin:float}"}

ListFormats == {"list[{product:str, revenue:float}]"}

(* C20: the validator's issue list is non-empty exactly when the result    *)
(* has no rows, or the expected format is a bare scalar and the first row  *)
(* has more than one column, or the expected format is a single            *)
(* multi-field record (not a list of records) and the first row has fewer  *)
(* than two columns; a list-of-records format with at least one row never  *)
(* produces an issue.                                                      *)
C20_ValidatorIssues ==
  [][pc = "validate" =>
       LET rows == state.sql_result.rows
           f == state.format_hint
       IN /\ (state'.validation_issues # << >>) <=>
               \/ rows = << >>
               \/ (rows # << >> /\ f \in ScalarFormats /\ Len(rows[1]) > 1)
               \/ (rows # << >> /\ f \in RecordFormats /\ Len(rows[1]) < 2)
          /\ (f \in ListFormats /\ rows # << >>) => state'.validation_issues = << >>]_vars

C20_Witness ==
  /\ pc = "repair"
  /\ ~LastExecFailed
  /\ state.format_hint \in RecordFormats
  /\ state.validation_issues = <<"Expected 2+ cols, got 1">>

(* the first row of a successful, non-empty result cannot be coerced into  *)
(* the expected format: the value to convert is not numeric (text or       *)
(* null), the row has too few columns, or the format is not a known one    *)
CoercionFails(s) ==
  /\ s.sql_result.present
  /\ s.sql_result.success
  /\ s.sql_result.rows # << >>
  /\ LET r == s.sql_result.rows[1]
         f == s.format_hint
     IN IF f \in ScalarFormats THEN r[1].t # "num"
        ELSE IF f \in RecordFormats \cup ListFormats
          THEN (Len(r) < 2 \/ r[2].t # "num")
        ELSE TRUE

(* C21: on a non-doc-only route, any failure to coerce the first result    *)
(* row into the expected format makes the final answer absent with the     *)
(* confidence at the low value; answer synthesis does not raise and the    *)
(* record returned is the normal one, not the fatal-error record.          *)
C21_CoercionFailureAbsent ==
  /\ [][(pc = "synthesize" /\ state.route # "rag" /\ CoercionFails(state)) =>
          /\ state'.final_answer = NoneAnswer
          /\ state'.confidence = LOW_CONFIDENCE
          /\ pc' = "END"
          /\ exc' = ""]_vars
  /\ []((pc = "returned" /\ runs["synthesize"] = 1 /\ state.route # "rag"
           /\ CoercionFails(state)) =>
          /\ ~Fatal
          /\ result.final_answer = NoneAnswer
          /\ result.confidence = LOW_CONFIDENCE)

C21_Witness ==
  /\ pc = "returned"
  /\ state.route = "sql"
  /\ state.format_hint = "{customer:str, margin:float}"
  /\ CoercionFails(state)
  /\ Len(state.sql_result.rows[1]) = 2
  /\ result.final_answer = NoneAnswer
  /\ result.confidence = LOW_CONFIDENCE

(* the last cursor.execute of the current executor call failed with a     *)
(* store error                                                             *)
LastAttemptFailed == ex.store_calls > 0 /\ Len(ex.errors) = ex.store_calls

(* C22 as stated: one call of the query executor runs the query against    *)
(* the store at most twice (the original text plus at most one auto-fixed  *)
(* text) and then returns a result, which is a failure result carrying the *)
(* store's error text if the last attempt failed.                          *)
C22_Original ==
  /\ ex.store_calls <= 2
  /\ ex.pc # "raised"
  /\ (ex.pc = "returned" /\ LastAttemptFailed) =>
       (~ex.ret.success /\ ex.ret.error = ex.errors[Len(ex.errors)])

(* C22 amended: one call of the query executor runs the query against the  *)
(* store at most twice, the original text and at most one auto-fixed text  *)
(* that differs from it; after the second run the call is over; when it    *)
(* returns, the result is a success exactly when the last run succeeded    *)
(* and otherwise a failure result carrying the store's error text of the   *)
(* last run; an exception of the driver that is not a store error leaves   *)
(* the executor without a result and without a retry.                      *)
C22_AtMostTwoAttempts ==
  /\ [](/\ ex.store_calls <= 2
        /\ ex.attempt <= 1
        /\ (ex.attempt = 1 => ex.sql # ex.original_sql)
        /\ (ex.store_calls = 2 => ex.pc \in {"returned", "raised"})
        /\ (ex.pc = "returned" =>
              /\ ex.ret.present
              /\ ex.ret.success <=> ~LastAttemptFailed
              /\ LastAttemptFailed => ex.ret.error = ex.errors[Len(ex.errors)]
              /\ ex.ret.error # "Max retries exceeded"))
  /\ [][ex'.pc = "raised" => (ex.pc = "attempt" /\ ex'.ret = NoExResult)]_vars

C22_Witness ==
  /\ ex.pc = "returned"
  /\ ex.store_calls = 2
  /\ ex.errors = <<"no such table: OrderDetails", "near FROM: syntax error">>
  /\ ex.ret.error = "near FROM: syntax error"
  /\ ex.ret.sql_used = ex.original_sql

(* C23: for every input sequence of question records the batch driver     *)
(* emits exactly one output record per input record, in input order and    *)
(* carrying the input's id, and a failure while processing one record does *)
(* not prevent the remaining records from being processed and emitted: no  *)
(* exception leaves the driver, and the written outputs match the inputs.  *)
C23_OneOutputPerInput ==
  /\ batch.pc # "aborted"
  /\ batch.pc = "done" =>
       /\ Len(batch.written) = Len(batch.questions)
       /\ \A k \in DOMAIN batch.written : batch.written[k].id = batch.questions[k].id

(* the second call of run has returned                                     *)
SecondRunReturned == world.run = 2 /\ pc = "returned"

SameAnswerAndCitations ==
  /\ result.final_answer = world.first.final_answer
  /\ result.citations = world.first.citations

(* C24 as stated: the second of two calls of run with the same question   *)
(* and format, on the same agent, against an unchanged store and unchanged *)
(* documents, returns the same final answer and the same citations         *)
C24_Original == SecondRunReturned => SameAnswerAndCitations

(* C24: the second of two calls of run with the same question and format,  *)
(* on the same agent, against an unchanged store and unchanged documents,  *)
(* returns the same final answer and the same citations as the first       *)
(* whenever route_predictor and sql_gen gave in the second call the        *)
(* outputs they gave in the first; what the first call left on the agent   *)
(* (_current_constraints, the schema cache) does not change the second     *)
C24_SecondRunSame == (SecondRunReturned /\ world.llm_same) => SameAnswerAndCitations

(* the second call returned an answer made from a generated query, with   *)
(* constraints and a cached schema left on the agent by the first          *)
C24_Witness ==
  /\ SecondRunReturned
  /\ world.llm_same
  /\ state.question \in DOMAIN world.gen
  /\ agent._current_constraints # << >>
  /\ agent._schema_cache
  /\ result.final_answer # NoneAnswer
  /\ SameAnswerAndCitations

(* the request run by itself afterwards has returned                       *)
AloneReturned == conc.alone # 0 /\ pc = "returned"

(* every request returned the record it returns when run by itself         *)
SameAsAlone == AloneReturned => result = conc.req[conc.alone].result

(* C25 as stated: no stage of a request reads a value another request      *)
(* wrote, and each request returns the record it returns when run alone    *)
C25_Original == conc.foreign = {} /\ SameAsAlone

(* C25: with two requests on one agent, under every interleaving of their  *)
(* stages, the only value a stage of one request reads that the other      *)
(* request wrote is the cached schema text, and each request returns the   *)
(* record it returns when run alone                                        *)
C25_OnlySchemaCacheShared == conc.foreign \subseteq {"_schema_cache"} /\ SameAsAlone

(* two requests with different questions interleaved, the second read the  *)
(* schema the first cached, and the one run alone returned an answer       *)
C25_Witness ==
  /\ AloneReturned
  /\ conc.req[1].state.question # conc.req[2].state.question
  /\ conc.foreign = {"_schema_cache"}
  /\ conc.req[conc.alone].state.sql.src = "llm"
  /\ result.final_answer # NoneAnswer
  /\ result = conc.req[conc.alone].result

(* C26: a request that has started eventually returns a result record,     *)
(* also when a call of route_predictor or sql_gen never returns            *)
C26_EventuallyReturns == (pc = "route") ~> (pc = "returned")

(* the raw generated text holds the words Order Details without quotes     *)
HasUnquoted(t) == \E i \in DOMAIN t.od : t.od[i] = 0

(* C27: when a generated text that holds the unquoted identifier           *)
(* Order Details has gone through the cleaning passes, every occurrence of *)
(* the identifier stands in exactly one pair of double quotes              *)
C27_QuotedExactlyOnce ==
  (clean.pc = "cleaned" /\ HasUnquoted(clean.raw)) =>
     \A i \in DOMAIN clean.sql.od : clean.sql.od[i] = 1

(* C28: within one request execute_sql is never entered with a repair      *)
(* count of 2 or more, the edge from a failed execute_sql to synthesize is *)
(* never taken, and generate_sql and execute_sql each run at most twice    *)
C28_ExecuteBelowTwoRepairs ==
  /\ [](pc = "execute_sql" => state.repair_count < 2)
  /\ [][~(pc = "execute_sql" /\ pc' = "synthesize")]_vars
  /\ [](runs["generate_sql"] <= 2 /\ runs["execute_sql"] <= 2)

(* the retry's execution failed as well: the request leaves the loop       *)
(* through repair, with two visits of generate_sql and of execute_sql      *)
C28_Witness ==
  /\ pc = "synthesize"
  /\ exec_log = <<"fail", "fail">>
  /\ runs["generate_sql"] = 2
  /\ runs["execute_sql"] = 2
  /\ runs["repair"] = 2
  /\ state.repair_count = 2

(* C29: on a route other than doc-only, when synthesize is about to run    *)
(* with a repair count below 2, the last execution succeeded and its       *)
(* validation found no issue; synthesize runs on a failed or shape-invalid *)
(* result only with a repair count of exactly 2                            *)
C29_SynthesizeFromValidResult ==
  (pc = "synthesize" /\ state.route # "rag") =>
     /\ state.repair_count < 2 =>
          /\ exec_log # << >>
          /\ exec_log[Len(exec_log)] = "ok"
          /\ state.sql_result.success
          /\ state.validation_issues = << >>
          /\ validate_node(state).validation_issues = << >>
     /\ (~state.sql_result.success \/ validate_node(state).validation_issues # << >>) =>
          state.repair_count = 2

(* synthesize is about to run after one repair, on a valid result          *)
C29_Witness ==
  /\ pc = "synthesize"
  /\ state.route # "rag"
  /\ state.repair_count = 1
  /\ exec_log = <<"fail", "ok">>
  /\ state.sql_result.success
  /\ state.validation_issues = << >>

(* the number of executions of the current request that failed             *)
FailedExecutions == Cardinality({i \in DOMAIN exec_log : exec_log[i] = "fail"})

(* C30: when synthesize is about to run, the repair count is the number of *)
(* failed executions plus the number of validations that found an issue,   *)
(* and previous_errors is the list of the failed executions' error texts   *)
(* in order                                                                *)
C30_RepairCountAndErrorHistory ==
  pc = "synthesize" =>
     /\ state.repair_count = FailedExecutions + hist.invalid
     /\ Len(hist.errors) = FailedExecutions
     /\ state.previous_errors = hist.errors

(* one execution failed, the next one's result had an issue                *)
C30_Witness ==
  /\ pc = "synthesize"
  /\ exec_log = <<"fail", "ok">>
  /\ hist.invalid = 1
  /\ state.repair_count = 2
  /\ state.previous_errors = hist.errors
  /\ Len(state.previous_errors) = 1

(* the trigger words of template rule n occur in the current question     *)
RuleTriggered(n) ==
  LET kw == state.question.kw
  IN CASE n = 1 -> "category" \in kw /\ "quantity" \in kw
       [] n = 2 -> "aov" \in kw \/ "average order value" \in kw
       [] n = 3 -> "top 3" \in kw /\ "product" \in kw /\ "revenue" \in kw
       [] n = 4 -> "revenue" \in kw /\ "beverage" \in kw
       [] n = 5 -> "customer" \in kw /\ "margin" \in kw

(* the date range handed to the template tier is present                  *)
DateRangePresent ==
  extract_dates(FilterConstraints(state.question, state.constraints))[1] # ""

(* the constraint template rule n requires is present: a date range for   *)
(* rules 1, 2 and 4, a year in the question for rule 5, nothing for rule 3 *)
RuleConstraintMet(n) ==
  CASE n \in {1, 2, 4} -> DateRangePresent
    [] n = 3 -> TRUE
    [] n = 5 -> state.question.year # ""

RuleSatisfied(n) == RuleTriggered(n) /\ RuleConstraintMet(n)

(* C31: the template rules are tried in the fixed order category-quantity, *)
(* AOV, top-3 products by revenue, category revenue, customer margin, and  *)
(* the first rule whose trigger words and required constraint (date range  *)
(* or year) are all satisfied decides the query; a rule whose trigger      *)
(* words match but whose required constraint is missing is skipped and the *)
(* later rules are still tried; if none is satisfied the template tier     *)
(* yields no query (the stored query is then not a template's).            *)
C31_TemplateOrder ==
  [][pc = "generate_sql" =>
       IF \E n \in 1..5 : RuleSatisfied(n)
         THEN \E n \in 1..5 :
                /\ RuleSatisfied(n)
                /\ \A m \in 1..(n - 1) : ~RuleSatisfied(m)
                /\ state'.sql.src = "template"
                /\ state'.sql.id = n
         ELSE state'.sql.src # "template"]_vars

(* the AOV rule's trigger matched without a date range and the later      *)
(* customer-margin rule decided the query                                  *)
C31_Witness ==
  /\ pc = "execute_sql"
  /\ {"aov", "customer", "margin", "2017"} \subseteq state.question.kw
  /\ ~DateRangePresent
  /\ state.sql = TemplateSql(5, "", "", "2017")

(* C32: a request in which the generative query call failed and the       *)
(* placeholder query was substituted never ends with the high confidence  *)
(* value: its final answer is absent and its confidence is the low value, *)
(* for every expected format.                                             *)
C32_PlaceholderNeverHigh ==
  (result.returned /\ result.sql = PlaceholderSql) =>
    /\ result.final_answer = NoneAnswer
    /\ result.confidence = LOW_CONFIDENCE

(* the fields of the pipeline state other than the repair count            *)
OtherFields == DOMAIN state \ {"repair_count"}

(* C33: the repair stage changes only the repair count: question, expected *)
(* format, route, evidence, constraints, query text and execution result   *)
(* (and every other field) are left unchanged, so when the template tier   *)
(* produced the query, the re-synthesis after a repair produces the        *)
(* identical query text as the attempt before it.                          *)
C33_RepairFrame ==
  [][/\ pc = "repair" =>
          /\ \A f \in OtherFields : state'[f] = state[f]
          /\ state'.repair_count = state.repair_count + 1
     /\ (pc = "generate_sql" /\ runs["repair"] > 0 /\ state.sql.src = "template") =>
          state'.sql = state.sql]_vars

(* a template query was synthesised again after a repair                  *)
C33_Witness ==
  /\ pc = "execute_sql"
  /\ runs["repair"] = 1
  /\ runs["generate_sql"] = 2
  /\ state.sql.src = "template"
  /\ state.sql.id = 1
  /\ state.constraints # << >>

(* one of the lexical route rules 1-3 matches the current question: the    *)
(* policy rule, the aggregate rule without "during", or the temporal rule  *)
LexicalRuleMatches ==
  \/ C14_Policy
  \/ (C14_Aggregate /\ "during" \notin state.question.kw)
  \/ C14_Temporal

(* the final default: store-only for an interrogative aggregate phrase     *)
FinalDefault ==
  IF "how many" \in state.question.kw \/ "what is" \in state.question.kw
    THEN "sql" ELSE "hybrid"

HasYearToken == state.question.kw \cap YearWords # {}

(* C35: every question that contains a 4-digit year token and matches     *)
(* neither the policy vocabulary nor the store-only rule is routed to     *)
(* both, without the generative fallback classifier being consulted.      *)
C35_YearRoutesBoth ==
  (/\ runs["route"] = 1
   /\ HasYearToken
   /\ ~C14_Policy
   /\ ~(C14_Aggregate /\ "during" \notin state.question.kw)) =>
    /\ state.route = "hybrid"
    /\ \A i \in DOMAIN llm_calls : llm_calls[i] # "route_predictor"

(* C36: a template rule is selected only when every one of its documented *)
(* trigger words occurs in the question: the category-quantity rule only   *)
(* when the question contains 'category', 'quantity' and 'highest' (with a *)
(* date range present), and the unfiltered top-3-by-revenue rule only when *)
(* it contains 'top 3', 'product', 'revenue' and 'all-time'.               *)
C36_DocumentedTriggers ==
  (runs["generate_sql"] >= 1 /\ state.sql.src = "template") =>
    /\ state.sql.id = 1 =>
         /\ {"category", "quantity", "highest"} \subseteq state.question.kw
         /\ DateRangePresent
    /\ state.sql.id = 3 =>
         {"top 3", "product", "revenue", "all-time"} \subseteq state.question.kw

(* the number of rows the list format uses: min(3, number of rows)         *)
UsedRows == IF Len(state.sql_result.rows) < 3 THEN Len(state.sql_result.rows) ELSE 3

(* every used row has a second column that float() accepts                 *)
UsedRowsCoerce ==
  \A i \in 1..UsedRows :
    /\ Len(state.sql_result.rows[i]) >= 2
    /\ state.sql_result.rows[i][2].t = "num"

(* C37: for the list-of-records format, when every used row coerces, the   *)
(* final answer holds one record per result row in row order, truncated to *)
(* the first 3 rows: its length is min(3, number of rows).                 *)
C37_ListTruncatedToThree ==
  (/\ pc \in {"END", "returned"}
   /\ state.format_hint = "list[{product:str, revenue:float}]"
   /\ state.sql_result.success
   /\ state.sql_result.rows # << >>
   /\ UsedRowsCoerce) =>
    /\ state.final_answer.kind = "list"
    /\ Len(state.final_answer.recs) = UsedRows
    /\ \A i \in 1..UsedRows :
         /\ state.final_answer.recs[i].name = state.sql_result.rows[i][1]
         /\ state.final_answer.recs[i].val = Round2(state.sql_result.rows[i][2])
    /\ pc = "returned" => result.final_answer = state.final_answer

(* four rows came back, the fourth does not coerce, and the answer holds   *)
(* the first three                                                         *)
C37_Witness ==
  /\ pc = "returned"
  /\ Len(state.sql_result.rows) = 4
  /\ Len(state.sql_result.rows[4]) = 2
  /\ state.sql_result.rows[4][2] = Txt
  /\ Len(result.final_answer.recs) = 3
  /\ result.final_answer.recs[3].val = 123

(* the identifiers of the evidence chunks                                  *)
ChunkIds == {Chunks[i].id : i \in DOMAIN Chunks}

(* C38: on the doc-only route no query is ever synthesised or executed:    *)
(* generate, execute, validate and repair are never visited, the repair    *)
(* count stays 0, the query text in the result record is empty, and the    *)
(* citations contain evidence-chunk identifiers only.                      *)
C38_DocOnlyFrame ==
  (runs["route"] = 1 /\ state.route = "rag") =>
    /\ \A st \in {"generate_sql", "execute_sql", "validate", "repair"} : runs[st] = 0
    /\ state.repair_count = 0
    /\ state.sql = NoSql
    /\ state.sql_tables = << >>
    /\ exec_log = << >>
    /\ \A i \in DOMAIN llm_calls : llm_calls[i] # "sql_gen"
    /\ result.returned =>
         /\ result.sql = NoSql
         /\ \A i \in DOMAIN result.citations : result.citations[i] \in ChunkIds
         /\ result.citations = sorted({state.doc_citations[i] : i \in DOMAIN state.doc_citations})

(* a doc-only request returned its answer citing the retrieved chunk       *)
C38_Witness ==
  /\ pc = "returned"
  /\ state.route = "rag"
  /\ runs["synthesize"] = 1
  /\ result.final_answer = IntAnswer(14)
  /\ result.citations = <<"product_policy::chunk1">>

(* the table names get_tables_from_query can report                        *)
TableNames ==
  {"Orders", "Order Details", "Products", "Customers", "Categories",
   "Suppliers", "Employees", "Shippers"}

(* the table names among the citations of the returned record              *)
CitedTables ==
  {result.citations[i] : i \in DOMAIN result.citations} \cap TableNames

(* C39: every table name in a result's citations was referenced by a      *)
(* query that executed successfully in the same request; when no           *)
(* execution of the request succeeded, the citations contain no table      *)
(* names.                                                                  *)
C39_CitedTablesExecuted ==
  result.returned =>
    /\ CitedTables \subseteq hist.tables
    /\ (\A i \in DOMAIN exec_log : exec_log[i] # "ok") => CitedTables = {}

(* the first query executed and was found invalid, the regenerated query   *)
(* failed, and the record cites the tables of the first query              *)
C39_Witness ==
  /\ pc = "returned"
  /\ exec_log = <<"ok", "fail">>
  /\ state.sql.src = "llm"
  /\ SeqToSet(get_tables_from_query(state.sql)) # CitedTables
  /\ CitedTables = {"Orders"}

(* C40: the query text handed to the executor after the fallback tier (the *)
(* generative module's own cleaning followed by the agent's repair pass)   *)
(* contains the two-word table identifier wrapped in exactly one pair of   *)
(* double quotes, whether the generated text had it unquoted or already    *)
(* correctly double-quoted; equivalently, applying the repair pass to its  *)
(* own output changes nothing.                                             *)
C40_RepairPassIdempotent ==
  clean.pc = "cleaned" =>
    /\ \A i \in DOMAIN clean.sql.od : clean.sql.od[i] = 1
    /\ _clean_sql(clean.sql) = clean.sql

====
